---- MODULE Spec2Model ----
(***************************************************************************)
(* Inventory ledger and order state machine of the retail API              *)
(* (app/services/inventory_service.py, app/services/transaction_service.py *)
(* over the SQLAlchemy repositories of app/repositories.py).               *)
(*                                                                         *)
(* Money is counted in cents: every money column is Numeric(10, 2).        *)
(* An Optional[...] value is a sequence of length 0 (None) or 1.           *)
(* Every repository create/update commits on its own (db.commit()), so a   *)
(* service method is a sequence of separately committed writes: an         *)
(* exception raised after a write leaves that write in the database.       *)
(***************************************************************************)
EXTENDS Integers, Sequences, FiniteSets, TLC

VARIABLES
    store_inventories,    \* table store_inventories: set of balance rows
    inventory_movements,  \* table inventory_movements: rows in insertion order
    transactions,         \* table transactions: rows in insertion order, id = index
    transaction_items,    \* table transaction_items: rows in insertion order
    product_prices,       \* current effective catalog price of each product
    session               \* the concurrent sessions (used by SpecConc only)

vars == <<store_inventories, inventory_movements, transactions,
          transaction_items, product_prices, session>>

ledger == <<store_inventories, inventory_movements>>

----------------------------------------------------------------------------
(* Optional[...]: None, or the one value *)

None == <<>>
Some(x) == <<x>>

----------------------------------------------------------------------------
(* Bounds of the model *)

MaxMovements == 2
MaxLedgerMovements == 3
MaxOrderMovements == 3
MaxTransactions == 1
MaxItems == 2

ExistingStores == {"S1", "S2"}
ExistingProducts == {"P1"}
ExistingEmployees == {"E1"}
ExistingCustomers == {"C1"}

(* Inputs of the calls: the existing ids and one unknown id of each kind *)
StoreIds == ExistingStores \cup {"S9"}
ProductIds == ExistingProducts \cup {"P9"}
Pairs == (ExistingStores \X ExistingProducts) \cup {<<"S9", "P1">>, <<"S1", "P9">>}
Quantities == {-1, 0, 1, 2}
Deltas == {-1, 0, 1}
UnitCosts == {0, 200, 401}
NewPrices == {0, 300}
RoundingModes == {"down", "up"}
TransactionIds == 1..(MaxTransactions + 1)

(* One line of an order request: product_id (or None), quantity, price (or None) *)
Item(product_id, quantity, price) ==
    [product_id |-> product_id, quantity |-> quantity, price |-> price]

GoodItems ==
    {Item(Some("P1"), 1, None), Item(Some("P1"), 1, Some(250)),
     Item(Some("P1"), 2, Some(250))}

BadItems ==
    {Item(None, 1, Some(250)), Item(Some("P9"), 1, Some(250)),
     Item(Some("P1"), 0, Some(250)), Item(Some("P1"), -1, Some(250)),
     Item(Some("P1"), 1, Some(-100)), Item(Some("P1"), 1, Some(0))}

RECURSIVE SeqsUpTo(_, _)
SeqsUpTo(S, n) ==
    IF n = 0 THEN {<<>>}
    ELSE LET shorter == SeqsUpTo(S, n - 1)
         IN  shorter \cup {Append(q, x) : q \in {r \in shorter : Len(r) = n - 1}, x \in S}

(* Item lists: the well-formed ones, and those ending in one ill-formed line *)
ItemLists ==
    SeqsUpTo(GoodItems, MaxItems)
        \cup {Append(q, x) : q \in SeqsUpTo(GoodItems, MaxItems - 1), x \in BadItems}

(* Order headers: store, employee, customer *)
Headers ==
    {<<s, "E1", None>> : s \in StoreIds}
        \cup {<<"S1", "E9", None>>, <<"S1", "E1", Some("C1")>>, <<"S1", "E1", Some("C9")>>}

----------------------------------------------------------------------------
(* Generic helpers *)

RECURSIVE SumSeq(_)
SumSeq(s) == IF s = <<>> THEN 0 ELSE Head(s) + SumSeq(Tail(s))

SelectIdx(s, Test(_)) == {i \in 1..Len(s) : Test(s[i])}

Abs(x) == IF x < 0 THEN -x ELSE x

(* The whole database as one value, threaded through the service methods *)
Db == [inv    |-> store_inventories,
       mov    |-> inventory_movements,
       txs    |-> transactions,
       items  |-> transaction_items,
       prices |-> product_prices]

Ok(db) == [db |-> db, result |-> "ok"]
Raise(db, e) == [db |-> db, result |-> e]

(* Numeric(10, 2): a Decimal num/den is stored rounded to whole cents; a    *)
(* value exactly half way goes up or down with the backend (rnd).           *)
Numeric_10_2(num, den, rnd) ==
    LET fl  == num \div den
        rem == num % den
    IN  IF 2 * rem < den THEN fl
        ELSE IF 2 * rem > den THEN fl + 1
        ELSE IF rnd = "up" THEN fl + 1 ELSE fl

----------------------------------------------------------------------------
(* Repositories *)

store_get(db, store_id) == store_id \in ExistingStores
product_get(db, product_id) == product_id \in ExistingProducts
employee_get(db, employee_id) == employee_id \in ExistingEmployees
customer_get(db, customer_id) == customer_id \in ExistingCustomers

get_by_store_and_product(db, store_id, product_id) ==
    LET hit == {r \in db.inv : r.store_id = store_id /\ r.product_id = product_id}
    IN  IF hit = {} THEN None ELSE Some(CHOOSE r \in hit : TRUE)

StoreInventory_constraints(row) ==
    /\ row.quantity_balance >= 0
    /\ row.unit_cost > 0
    /\ row.total_cost >= 0

InventoryMovement_constraints(row) ==
    /\ row.quantity_change # 0
    /\ row.unit_cost > 0
    /\ row.movement_type \in {"purchase", "sale", "adjustment", "return", "transfer"}

(* store_inventory_create on a table without the unique key on (store, product) *)
store_inventory_create_no_unique(db, obj_in) ==
    IF StoreInventory_constraints(obj_in)
    THEN Ok([db EXCEPT !.inv = @ \cup {obj_in}])
    ELSE Raise(db, "IntegrityError")

store_inventory_create(db, obj_in) ==
    IF /\ StoreInventory_constraints(obj_in)
       /\ get_by_store_and_product(db, obj_in.store_id, obj_in.product_id) = None
    THEN Ok([db EXCEPT !.inv = @ \cup {obj_in}])
    ELSE Raise(db, "IntegrityError")

(* store_inventory_update that deletes a balance that has come down to zero *)
store_inventory_update_dropping(db, db_obj, obj_in) ==
    IF ~StoreInventory_constraints(obj_in) THEN Raise(db, "IntegrityError")
    ELSE IF obj_in.quantity_balance = 0
         THEN Ok([db EXCEPT !.inv = @ \ {db_obj}])
    ELSE Ok([db EXCEPT !.inv = (@ \ {db_obj}) \cup {obj_in}])

store_inventory_update(db, db_obj, obj_in) ==
    IF StoreInventory_constraints(obj_in)
    THEN Ok([db EXCEPT !.inv = (@ \ {db_obj}) \cup {obj_in}])
    ELSE Raise(db, "IntegrityError")

inventory_movement_create(db, obj_in) ==
    IF InventoryMovement_constraints(obj_in)
    THEN Ok([db EXCEPT !.mov = Append(@, obj_in)])
    ELSE Raise(db, "IntegrityError")

Movement(store_id, product_id, quantity_change, unit_cost, movement_type,
         reference_id, notes) ==
    [store_id |-> store_id, product_id |-> product_id,
     quantity_change |-> quantity_change, unit_cost |-> unit_cost,
     movement_type |-> movement_type, reference_id |-> reference_id,
     notes |-> notes]

(* A write followed by the rest of the method: the rest runs only if the    *)
(* write did not raise.                                                     *)
Then(out, Rest(_)) == IF out.result = "ok" THEN Rest(out.db) ELSE out

----------------------------------------------------------------------------
(* InventoryService *)

(* initialize_inventory that writes the balance and no movement *)
initialize_inventory_unlogged(db, store_id, product_id, quantity, unit_cost) ==
    IF ~store_get(db, store_id) THEN Raise(db, "StoreNotFoundError")
    ELSE IF ~product_get(db, product_id) THEN Raise(db, "ProductNotFoundError")
    ELSE IF quantity < 0 THEN Raise(db, "InvalidQuantityError")
    ELSE IF unit_cost <= 0 THEN Raise(db, "InvalidQuantityError")
    ELSE IF get_by_store_and_product(db, store_id, product_id) # None
         THEN Raise(db, "ValueError")
    ELSE
      LET inventory_data ==
              [store_id |-> store_id, product_id |-> product_id,
               quantity_balance |-> quantity, unit_cost |-> unit_cost,
               total_cost |-> quantity * unit_cost]
          movement(d) ==
              IF quantity > 0
              THEN inventory_movement_create(d,
                       Movement(store_id, product_id, quantity, unit_cost,
                                "purchase", None, "Initial inventory"))
              ELSE Ok(d)
      IN  store_inventory_create(db, inventory_data)

initialize_inventory(db, store_id, product_id, quantity, unit_cost) ==
    IF ~store_get(db, store_id) THEN Raise(db, "StoreNotFoundError")
    ELSE IF ~product_get(db, product_id) THEN Raise(db, "ProductNotFoundError")
    ELSE IF quantity < 0 THEN Raise(db, "InvalidQuantityError")
    ELSE IF unit_cost <= 0 THEN Raise(db, "InvalidQuantityError")
    ELSE IF get_by_store_and_product(db, store_id, product_id) # None
         THEN Raise(db, "ValueError")
    ELSE
      LET inventory_data ==
              [store_id |-> store_id, product_id |-> product_id,
               quantity_balance |-> quantity, unit_cost |-> unit_cost,
               total_cost |-> quantity * unit_cost]
          movement(d) ==
              IF quantity > 0
              THEN inventory_movement_create(d,
                       Movement(store_id, product_id, quantity, unit_cost,
                                "purchase", None, "Initial inventory"))
              ELSE Ok(d)
      IN  Then(store_inventory_create(db, inventory_data), movement)

(* record_purchase that logs the movement at the blended average cost *)
record_purchase_blended(db, store_id, product_id, quantity, unit_cost, rnd) ==
    IF quantity <= 0 THEN Raise(db, "InvalidQuantityError")
    ELSE IF unit_cost <= 0 THEN Raise(db, "InvalidQuantityError")
    ELSE
      LET inventory_record == get_by_store_and_product(db, store_id, product_id)
      IN  IF inventory_record = None
          THEN initialize_inventory(db, store_id, product_id, quantity, unit_cost)
          ELSE
            LET rec == inventory_record[1]
                new_quantity == rec.quantity_balance + quantity
                new_total_cost == rec.total_cost + quantity * unit_cost
                new_unit_cost ==
                    IF new_quantity > 0
                    THEN Numeric_10_2(new_total_cost, new_quantity, rnd)
                    ELSE unit_cost
                movement(d) ==
                    inventory_movement_create(d,
                        Movement(store_id, product_id, quantity, new_unit_cost,
                                 "purchase", None, ""))
            IN  Then(store_inventory_update(db, rec,
                         [rec EXCEPT !.quantity_balance = new_quantity,
                                     !.unit_cost = new_unit_cost,
                                     !.total_cost = new_total_cost]),
                     movement)

(* record_purchase that refuses a pair without a balance, as record_sale does *)
record_purchase_known_pair(db, store_id, product_id, quantity, unit_cost, rnd) ==
    IF quantity <= 0 THEN Raise(db, "InvalidQuantityError")
    ELSE IF unit_cost <= 0 THEN Raise(db, "InvalidQuantityError")
    ELSE
      LET inventory_record == get_by_store_and_product(db, store_id, product_id)
      IN  IF inventory_record = None
          THEN Raise(db, "InventoryNotFoundError")
          ELSE
            LET rec == inventory_record[1]
                new_quantity == rec.quantity_balance + quantity
                new_total_cost == rec.total_cost + quantity * unit_cost
                new_unit_cost ==
                    IF new_quantity > 0
                    THEN Numeric_10_2(new_total_cost, new_quantity, rnd)
                    ELSE unit_cost
                movement(d) ==
                    inventory_movement_create(d,
                        Movement(store_id, product_id, quantity, unit_cost,
                                 "purchase", None, ""))
            IN  Then(store_inventory_update(db, rec,
                         [rec EXCEPT !.quantity_balance = new_quantity,
                                     !.unit_cost = new_unit_cost,
                                     !.total_cost = new_total_cost]),
                     movement)

record_purchase(db, store_id, product_id, quantity, unit_cost, rnd) ==
    IF quantity <= 0 THEN Raise(db, "InvalidQuantityError")
    ELSE IF unit_cost <= 0 THEN Raise(db, "InvalidQuantityError")
    ELSE
      LET inventory_record == get_by_store_and_product(db, store_id, product_id)
      IN  IF inventory_record = None
          THEN initialize_inventory(db, store_id, product_id, quantity, unit_cost)
          ELSE
            LET rec == inventory_record[1]
                new_quantity == rec.quantity_balance + quantity
                new_total_cost == rec.total_cost + quantity * unit_cost
                new_unit_cost ==
                    IF new_quantity > 0
                    THEN Numeric_10_2(new_total_cost, new_quantity, rnd)
                    ELSE unit_cost
                movement(d) ==
                    inventory_movement_create(d,
                        Movement(store_id, product_id, quantity, unit_cost,
                                 "purchase", None, ""))
            IN  Then(store_inventory_update(db, rec,
                         [rec EXCEPT !.quantity_balance = new_quantity,
                                     !.unit_cost = new_unit_cost,
                                     !.total_cost = new_total_cost]),
                     movement)

(* record_sale that takes the cost of the goods sold off the total cost *)
record_sale_off_total(db, store_id, product_id, quantity, transaction_id, notes) ==
    IF quantity <= 0 THEN Raise(db, "InvalidQuantityError")
    ELSE
      LET inventory_record == get_by_store_and_product(db, store_id, product_id)
      IN  IF inventory_record = None THEN Raise(db, "InventoryNotFoundError")
          ELSE IF inventory_record[1].quantity_balance < quantity
               THEN Raise(db, "InsufficientStockError")
          ELSE
            LET rec == inventory_record[1]
                new_quantity == rec.quantity_balance - quantity
                new_total_cost == rec.total_cost - rec.unit_cost * quantity
                movement(d) ==
                    inventory_movement_create(d,
                        Movement(store_id, product_id, -quantity, rec.unit_cost,
                                 "sale", transaction_id, notes))
            IN  Then(store_inventory_update(db, rec,
                         [rec EXCEPT !.quantity_balance = new_quantity,
                                     !.total_cost = new_total_cost]),
                     movement)

(* record_sale that reports a pair without a balance as out of stock *)
record_sale_no_stock(db, store_id, product_id, quantity, transaction_id, notes) ==
    IF quantity <= 0 THEN Raise(db, "InvalidQuantityError")
    ELSE
      LET inventory_record == get_by_store_and_product(db, store_id, product_id)
      IN  IF inventory_record = None THEN Raise(db, "InsufficientStockError")
          ELSE IF inventory_record[1].quantity_balance < quantity
               THEN Raise(db, "InsufficientStockError")
          ELSE
            LET rec == inventory_record[1]
                new_quantity == rec.quantity_balance - quantity
                new_total_cost == rec.unit_cost * new_quantity
                movement(d) ==
                    inventory_movement_create(d,
                        Movement(store_id, product_id, -quantity, rec.unit_cost,
                                 "sale", transaction_id, notes))
            IN  Then(store_inventory_update(db, rec,
                         [rec EXCEPT !.quantity_balance = new_quantity,
                                     !.total_cost = new_total_cost]),
                     movement)

record_sale(db, store_id, product_id, quantity, transaction_id, notes) ==
    IF quantity <= 0 THEN Raise(db, "InvalidQuantityError")
    ELSE
      LET inventory_record == get_by_store_and_product(db, store_id, product_id)
      IN  IF inventory_record = None THEN Raise(db, "InventoryNotFoundError")
          ELSE IF inventory_record[1].quantity_balance < quantity
               THEN Raise(db, "InsufficientStockError")
          ELSE
            LET rec == inventory_record[1]
                new_quantity == rec.quantity_balance - quantity
                new_total_cost == rec.unit_cost * new_quantity
                movement(d) ==
                    inventory_movement_create(d,
                        Movement(store_id, product_id, -quantity, rec.unit_cost,
                                 "sale", transaction_id, notes))
            IN  Then(store_inventory_update(db, rec,
                         [rec EXCEPT !.quantity_balance = new_quantity,
                                     !.total_cost = new_total_cost]),
                     movement)

(* record_adjustment without its check of the resulting quantity *)
record_adjustment_unchecked(db, store_id, product_id, quantity_change, notes) ==
    IF quantity_change = 0 THEN Raise(db, "InvalidQuantityError")
    ELSE
      LET inventory_record == get_by_store_and_product(db, store_id, product_id)
      IN  IF inventory_record = None THEN Raise(db, "InventoryNotFoundError")
          ELSE
            LET rec == inventory_record[1]
                new_quantity == rec.quantity_balance + quantity_change
                new_total_cost == rec.unit_cost * new_quantity
                movement(d) ==
                    inventory_movement_create(d,
                        Movement(store_id, product_id, quantity_change,
                                 rec.unit_cost, "adjustment", None, notes))
            IN  Then(store_inventory_update(db, rec,
                         [rec EXCEPT !.quantity_balance = new_quantity,
                                     !.total_cost = new_total_cost]),
                     movement)

(* record_adjustment without the stock check, writing the balance past the *)
(* checks of the table                                                      *)
record_adjustment_raw(db, store_id, product_id, quantity_change, notes) ==
    IF quantity_change = 0 THEN Raise(db, "InvalidQuantityError")
    ELSE
      LET inventory_record == get_by_store_and_product(db, store_id, product_id)
      IN  IF inventory_record = None THEN Raise(db, "InventoryNotFoundError")
          ELSE
            LET rec == inventory_record[1]
                new_quantity == rec.quantity_balance + quantity_change
                new_total_cost == rec.unit_cost * new_quantity
                movement(d) ==
                    inventory_movement_create(d,
                        Movement(store_id, product_id, quantity_change,
                                 rec.unit_cost, "adjustment", None, notes))
                updated == [rec EXCEPT !.quantity_balance = new_quantity,
                                       !.total_cost = new_total_cost]
            IN  Then(Ok([db EXCEPT !.inv = (@ \ {rec}) \cup {updated}]), movement)

(* record_adjustment that adds the cost of the adjusted units to the total cost *)
record_adjustment_off_total(db, store_id, product_id, quantity_change, notes) ==
    IF quantity_change = 0 THEN Raise(db, "InvalidQuantityError")
    ELSE
      LET inventory_record == get_by_store_and_product(db, store_id, product_id)
      IN  IF inventory_record = None THEN Raise(db, "InventoryNotFoundError")
          ELSE IF inventory_record[1].quantity_balance + quantity_change < 0
               THEN Raise(db, "InsufficientStockError")
          ELSE
            LET rec == inventory_record[1]
                new_quantity == rec.quantity_balance + quantity_change
                new_total_cost == rec.total_cost + rec.unit_cost * quantity_change
                movement(d) ==
                    inventory_movement_create(d,
                        Movement(store_id, product_id, quantity_change,
                                 rec.unit_cost, "adjustment", None, notes))
            IN  Then(store_inventory_update(db, rec,
                         [rec EXCEPT !.quantity_balance = new_quantity,
                                     !.total_cost = new_total_cost]),
                     movement)

record_adjustment(db, store_id, product_id, quantity_change, notes) ==
    IF quantity_change = 0 THEN Raise(db, "InvalidQuantityError")
    ELSE
      LET inventory_record == get_by_store_and_product(db, store_id, product_id)
      IN  IF inventory_record = None THEN Raise(db, "InventoryNotFoundError")
          ELSE IF inventory_record[1].quantity_balance + quantity_change < 0
               THEN Raise(db, "InsufficientStockError")
          ELSE
            LET rec == inventory_record[1]
                new_quantity == rec.quantity_balance + quantity_change
                new_total_cost == rec.unit_cost * new_quantity
                movement(d) ==
                    inventory_movement_create(d,
                        Movement(store_id, product_id, quantity_change,
                                 rec.unit_cost, "adjustment", None, notes))
            IN  Then(store_inventory_update(db, rec,
                         [rec EXCEPT !.quantity_balance = new_quantity,
                                     !.total_cost = new_total_cost]),
                     movement)

(* record_return that lets a quantity of zero through *)
record_return_zero(db, store_id, product_id, quantity, transaction_id, notes) ==
    IF quantity < 0 THEN Raise(db, "InvalidQuantityError")
    ELSE
      LET inventory_record == get_by_store_and_product(db, store_id, product_id)
      IN  IF inventory_record = None THEN Raise(db, "InventoryNotFoundError")
          ELSE
            LET rec == inventory_record[1]
                new_quantity == rec.quantity_balance + quantity
                new_total_cost == rec.unit_cost * new_quantity
                movement(d) ==
                    inventory_movement_create(d,
                        Movement(store_id, product_id, quantity, rec.unit_cost,
                                 "return", transaction_id, notes))
            IN  Then(store_inventory_update(db, rec,
                         [rec EXCEPT !.quantity_balance = new_quantity,
                                     !.total_cost = new_total_cost]),
                     movement)

record_return(db, store_id, product_id, quantity, transaction_id, notes) ==
    IF quantity <= 0 THEN Raise(db, "InvalidQuantityError")
    ELSE
      LET inventory_record == get_by_store_and_product(db, store_id, product_id)
      IN  IF inventory_record = None THEN Raise(db, "InventoryNotFoundError")
          ELSE
            LET rec == inventory_record[1]
                new_quantity == rec.quantity_balance + quantity
                new_total_cost == rec.unit_cost * new_quantity
                movement(d) ==
                    inventory_movement_create(d,
                        Movement(store_id, product_id, quantity, rec.unit_cost,
                                 "return", transaction_id, notes))
            IN  Then(store_inventory_update(db, rec,
                         [rec EXCEPT !.quantity_balance = new_quantity,
                                     !.total_cost = new_total_cost]),
                     movement)

(* transfer_inventory that books the goods into an existing destination as *)
(* a purchase at the source's unit cost                                     *)
transfer_inventory_repricing(db, from_store_id, to_store_id, product_id, quantity) ==
    IF quantity <= 0 THEN Raise(db, "InvalidQuantityError")
    ELSE
      LET destination(d) ==
              LET from_inventory ==
                      get_by_store_and_product(d, from_store_id, product_id)[1]
                  to_inventory_record ==
                      get_by_store_and_product(d, to_store_id, product_id)
                  movement_to(d3) ==
                      inventory_movement_create(d3,
                          Movement(to_store_id, product_id, quantity,
                                   from_inventory.unit_cost, "transfer", None,
                                   "Transfer from store"))
                  movement_from(d2) ==
                      Then(inventory_movement_create(d2,
                               Movement(from_store_id, product_id, -quantity,
                                        from_inventory.unit_cost, "transfer", None,
                                        "Transfer to store")),
                           movement_to)
              IN  Then(IF to_inventory_record = None
                       THEN initialize_inventory(d, to_store_id, product_id,
                                quantity, from_inventory.unit_cost)
                       ELSE record_purchase(d, to_store_id, product_id, quantity,
                                from_inventory.unit_cost, "down"),
                       movement_from)
      IN  Then(record_adjustment(db, from_store_id, product_id, -quantity,
                                 "Transfer to store"),
               destination)

transfer_inventory(db, from_store_id, to_store_id, product_id, quantity) ==
    IF quantity <= 0 THEN Raise(db, "InvalidQuantityError")
    ELSE
      LET destination(d) ==
              LET from_inventory ==
                      get_by_store_and_product(d, from_store_id, product_id)[1]
                  to_inventory_record ==
                      get_by_store_and_product(d, to_store_id, product_id)
                  movement_to(d3) ==
                      inventory_movement_create(d3,
                          Movement(to_store_id, product_id, quantity,
                                   from_inventory.unit_cost, "transfer", None,
                                   "Transfer from store"))
                  movement_from(d2) ==
                      Then(inventory_movement_create(d2,
                               Movement(from_store_id, product_id, -quantity,
                                        from_inventory.unit_cost, "transfer", None,
                                        "Transfer to store")),
                           movement_to)
              IN  Then(IF to_inventory_record = None
                       THEN initialize_inventory(d, to_store_id, product_id,
                                quantity, from_inventory.unit_cost)
                       ELSE record_adjustment(d, to_store_id, product_id, quantity,
                                "Transfer from store"),
                       movement_from)
      IN  Then(record_adjustment(db, from_store_id, product_id, -quantity,
                                 "Transfer to store"),
               destination)

----------------------------------------------------------------------------
(* ProductService: the catalog price consumed by create_transaction *)

get_current_price(db, product_id) ==
    IF product_id \in DOMAIN db.prices THEN db.prices[product_id] ELSE None

update_price(db, product_id, new_price) ==
    IF ~product_get(db, product_id) THEN Raise(db, "ProductNotFoundError")
    ELSE IF new_price <= 0 THEN Raise(db, "InvalidPriceError")
    ELSE Ok([db EXCEPT !.prices[product_id] = Some(new_price)])

----------------------------------------------------------------------------
(* Transaction repositories *)

Transaction_constraints(row) ==
    /\ row.total_amount >= 0
    /\ row.status \in {"pending", "completed", "refunded", "cancelled"}

TransactionItem_constraints(row) ==
    /\ row.quantity > 0
    /\ row.price > 0

transaction_get(db, transaction_id) ==
    IF transaction_id \in 1..Len(db.txs) THEN Some(db.txs[transaction_id]) ELSE None

transaction_create(db, obj_in) ==
    IF Transaction_constraints(obj_in)
    THEN Ok([db EXCEPT !.txs = Append(@, obj_in)])
    ELSE Raise(db, "IntegrityError")

transaction_update(db, transaction_id, status) ==
    IF Transaction_constraints([db.txs[transaction_id] EXCEPT !.status = status])
    THEN Ok([db EXCEPT !.txs[transaction_id].status = status])
    ELSE Raise(db, "IntegrityError")

transaction_item_create(db, obj_in) ==
    IF TransactionItem_constraints(obj_in)
    THEN Ok([db EXCEPT !.items = Append(@, obj_in)])
    ELSE Raise(db, "IntegrityError")

get_by_transaction(db, transaction_id) ==
    SelectSeq(db.items, LAMBDA it : it.transaction_id = transaction_id)

----------------------------------------------------------------------------
(* TransactionService *)

(* validate_items that reports a product the store has no balance of as    *)
(* InventoryNotFoundError                                                   *)
RECURSIVE validate_items_not_found(_, _, _, _, _, _)
validate_items_not_found(db, store_id, items, i, validated_items, total_amount) ==
    IF i > Len(items)
    THEN [result |-> "ok", validated_items |-> validated_items,
          total_amount |-> total_amount]
    ELSE
      LET item == items[i]
          fail(e) == [result |-> e, validated_items |-> validated_items,
                      total_amount |-> total_amount]
      IN  IF item.product_id = None \/ item.quantity = 0
               THEN fail("InvalidTransactionError")
          ELSE IF item.quantity <= 0 THEN fail("InvalidTransactionError")
          ELSE IF ~product_get(db, item.product_id[1]) THEN fail("ProductNotFoundError")
          ELSE IF item.price = None /\ get_current_price(db, item.product_id[1]) = None
               THEN fail("InvalidTransactionError")
          ELSE IF get_by_store_and_product(db, store_id, item.product_id[1]) = None
               THEN fail("InventoryNotFoundError")
          ELSE IF get_by_store_and_product(db, store_id, item.product_id[1])[1]
                      .quantity_balance < item.quantity
               THEN fail("InsufficientStockError")
          ELSE
            LET item_price ==
                    IF item.price = None
                    THEN get_current_price(db, item.product_id[1])[1]
                    ELSE item.price[1]
            IN  validate_items_not_found(db, store_id, items, i + 1,
                    Append(validated_items,
                           [product_id |-> item.product_id[1],
                            quantity |-> item.quantity, price |-> item_price]),
                    total_amount + item_price * item.quantity)

(* The validation loop of create_transaction over items[i..]: the error it  *)
(* raises, or "ok" with the validated items and the total.                  *)
RECURSIVE validate_items(_, _, _, _, _, _)
validate_items(db, store_id, items, i, validated_items, total_amount) ==
    IF i > Len(items)
    THEN [result |-> "ok", validated_items |-> validated_items,
          total_amount |-> total_amount]
    ELSE
      LET item == items[i]
          fail(e) == [result |-> e, validated_items |-> validated_items,
                      total_amount |-> total_amount]
      IN  IF item.product_id = None \/ item.quantity = 0
               THEN fail("InvalidTransactionError")
          ELSE IF item.quantity <= 0 THEN fail("InvalidTransactionError")
          ELSE IF ~product_get(db, item.product_id[1]) THEN fail("ProductNotFoundError")
          ELSE IF item.price = None /\ get_current_price(db, item.product_id[1]) = None
               THEN fail("InvalidTransactionError")
          ELSE IF get_by_store_and_product(db, store_id, item.product_id[1]) = None
               THEN fail("InsufficientStockError")
          ELSE IF get_by_store_and_product(db, store_id, item.product_id[1])[1]
                      .quantity_balance < item.quantity
               THEN fail("InsufficientStockError")
          ELSE
            LET item_price ==
                    IF item.price = None
                    THEN get_current_price(db, item.product_id[1])[1]
                    ELSE item.price[1]
            IN  validate_items(db, store_id, items, i + 1,
                    Append(validated_items,
                           [product_id |-> item.product_id[1],
                            quantity |-> item.quantity, price |-> item_price]),
                    total_amount + item_price * item.quantity)

(* The loop that persists the validated items, one committed insert each *)
RECURSIVE create_items(_, _, _, _)
create_items(db, transaction_id, validated_items, i) ==
    IF i > Len(validated_items) THEN Ok(db)
    ELSE
      LET out == transaction_item_create(db,
                     [transaction_id |-> transaction_id,
                      product_id |-> validated_items[i].product_id,
                      quantity |-> validated_items[i].quantity,
                      price |-> validated_items[i].price])
      IN  IF out.result = "ok"
          THEN create_items(out.db, transaction_id, validated_items, i + 1)
          ELSE out

(* create_transaction that takes the first line out of stock as it creates *)
create_transaction_reserving(db, store_id, employee_id, items, customer_id) ==
    IF ~store_get(db, store_id) THEN Raise(db, "StoreNotFoundError")
    ELSE IF ~employee_get(db, employee_id) THEN Raise(db, "EmployeeNotFoundError")
    ELSE IF customer_id # None /\ ~customer_get(db, customer_id[1])
         THEN Raise(db, "CustomerNotFoundError")
    ELSE IF Len(items) = 0 THEN Raise(db, "InvalidTransactionError")
    ELSE
      LET v == validate_items(db, store_id, items, 1, <<>>, 0)
          transaction_data ==
              [customer_id |-> customer_id, store_id |-> store_id,
               employee_id |-> employee_id, total_amount |-> v.total_amount,
               status |-> "pending"]
          persist_items(d) == create_items(d, Len(d.txs), v.validated_items, 1)
          reserve(d) ==
              record_sale(d, store_id, v.validated_items[1].product_id,
                          v.validated_items[1].quantity, None, "")
      IN  IF v.result # "ok" THEN Raise(db, v.result)
          ELSE Then(Then(transaction_create(db, transaction_data), persist_items),
                    reserve)

create_transaction(db, store_id, employee_id, items, customer_id) ==
    IF ~store_get(db, store_id) THEN Raise(db, "StoreNotFoundError")
    ELSE IF ~employee_get(db, employee_id) THEN Raise(db, "EmployeeNotFoundError")
    ELSE IF customer_id # None /\ ~customer_get(db, customer_id[1])
         THEN Raise(db, "CustomerNotFoundError")
    ELSE IF Len(items) = 0 THEN Raise(db, "InvalidTransactionError")
    ELSE
      LET v == validate_items(db, store_id, items, 1, <<>>, 0)
          transaction_data ==
              [customer_id |-> customer_id, store_id |-> store_id,
               employee_id |-> employee_id, total_amount |-> v.total_amount,
               status |-> "pending"]
          persist_items(d) == create_items(d, Len(d.txs), v.validated_items, 1)
      IN  IF v.result # "ok" THEN Raise(db, v.result)
          ELSE Then(transaction_create(db, transaction_data), persist_items)

(* The loop of complete_transaction: one record_sale per line item *)
RECURSIVE sell_items(_, _, _, _, _)
sell_items(db, store_id, transaction_id, items, i) ==
    IF i > Len(items) THEN Ok(db)
    ELSE
      LET out == record_sale(db, store_id, items[i].product_id, items[i].quantity,
                             Some(transaction_id), "Sale from transaction")
      IN  IF out.result = "ok"
          THEN sell_items(out.db, store_id, transaction_id, items, i + 1)
          ELSE out

complete_transaction(db, transaction_id) ==
    LET trans == transaction_get(db, transaction_id)
        status(d) == transaction_update(d, transaction_id, "completed")
    IN  IF trans = None THEN Raise(db, "TransactionNotFoundError")
        ELSE IF trans[1].status # "pending" THEN Raise(db, "InvalidTransactionError")
        ELSE Then(sell_items(db, trans[1].store_id, transaction_id,
                             get_by_transaction(db, transaction_id), 1),
                  status)

(* cancel_transaction that forgets the refunded status in its check *)
cancel_transaction_refunded(db, transaction_id) ==
    LET trans == transaction_get(db, transaction_id)
    IN  IF trans = None THEN Raise(db, "TransactionNotFoundError")
        ELSE IF trans[1].status \in {"cancelled"}
             THEN Raise(db, "InvalidTransactionError")
        ELSE transaction_update(db, transaction_id, "cancelled")

(* cancel_transaction that gives the first line of a completed order back *)
cancel_transaction_reversing(db, transaction_id) ==
    LET trans == transaction_get(db, transaction_id)
        items == get_by_transaction(db, transaction_id)
        status(d) == transaction_update(d, transaction_id, "cancelled")
    IN  IF trans = None THEN Raise(db, "TransactionNotFoundError")
        ELSE IF trans[1].status \in {"cancelled", "refunded"}
             THEN Raise(db, "InvalidTransactionError")
        ELSE IF trans[1].status = "completed" /\ Len(items) > 0
             THEN Then(record_return(db, trans[1].store_id, items[1].product_id,
                                     items[1].quantity, Some(transaction_id), ""),
                       status)
        ELSE status(db)

cancel_transaction(db, transaction_id) ==
    LET trans == transaction_get(db, transaction_id)
    IN  IF trans = None THEN Raise(db, "TransactionNotFoundError")
        ELSE IF trans[1].status \in {"cancelled", "refunded"}
             THEN Raise(db, "InvalidTransactionError")
        ELSE transaction_update(db, transaction_id, "cancelled")

(* The loop of refund_transaction giving every line item back twice over *)
RECURSIVE return_items_doubled(_, _, _, _, _)
return_items_doubled(db, store_id, transaction_id, items, i) ==
    IF i > Len(items) THEN Ok(db)
    ELSE
      LET out == record_return(db, store_id, items[i].product_id,
                               2 * items[i].quantity,
                               Some(transaction_id), "Refund for transaction")
      IN  IF out.result = "ok"
          THEN return_items_doubled(out.db, store_id, transaction_id, items, i + 1)
          ELSE out

(* The loop of refund_transaction stopping after the first line item *)
RECURSIVE return_items_first_line(_, _, _, _, _)
return_items_first_line(db, store_id, transaction_id, items, i) ==
    IF i > Len(items) \/ i > 1 THEN Ok(db)
    ELSE
      LET out == record_return(db, store_id, items[i].product_id, items[i].quantity,
                               Some(transaction_id), "Refund for transaction")
      IN  IF out.result = "ok"
          THEN return_items_first_line(out.db, store_id, transaction_id, items, i + 1)
          ELSE out

(* The loop of refund_transaction: one record_return per line item *)
RECURSIVE return_items(_, _, _, _, _)
return_items(db, store_id, transaction_id, items, i) ==
    IF i > Len(items) THEN Ok(db)
    ELSE
      LET out == record_return(db, store_id, items[i].product_id, items[i].quantity,
                               Some(transaction_id), "Refund for transaction")
      IN  IF out.result = "ok"
          THEN return_items(out.db, store_id, transaction_id, items, i + 1)
          ELSE out

(* refund_transaction that rejects only a pending order *)
refund_transaction_again(db, transaction_id, restore_inventory) ==
    LET trans == transaction_get(db, transaction_id)
        status(d) == transaction_update(d, transaction_id, "refunded")
    IN  IF trans = None THEN Raise(db, "TransactionNotFoundError")
        ELSE IF trans[1].status = "pending" THEN Raise(db, "InvalidTransactionError")
        ELSE Then(IF restore_inventory
                  THEN return_items(db, trans[1].store_id, transaction_id,
                                    get_by_transaction(db, transaction_id), 1)
                  ELSE Ok(db),
                  status)

(* refund_transaction that never restores the inventory *)
refund_transaction_no_restore(db, transaction_id, restore_inventory) ==
    LET trans == transaction_get(db, transaction_id)
    IN  IF trans = None THEN Raise(db, "TransactionNotFoundError")
        ELSE IF trans[1].status # "completed" THEN Raise(db, "InvalidTransactionError")
        ELSE transaction_update(db, transaction_id, "refunded")

refund_transaction(db, transaction_id, restore_inventory) ==
    LET trans == transaction_get(db, transaction_id)
        status(d) == transaction_update(d, transaction_id, "refunded")
    IN  IF trans = None THEN Raise(db, "TransactionNotFoundError")
        ELSE IF trans[1].status # "completed" THEN Raise(db, "InvalidTransactionError")
        ELSE Then(IF restore_inventory
                  THEN return_items(db, trans[1].store_id, transaction_id,
                                    get_by_transaction(db, transaction_id), 1)
                  ELSE Ok(db),
                  status)

----------------------------------------------------------------------------
(* One step of the system: one service call, with its outcome recorded *)

Commit(out) ==
    /\ store_inventories' = out.db.inv
    /\ inventory_movements' = out.db.mov
    /\ transactions' = out.db.txs
    /\ transaction_items' = out.db.items
    /\ product_prices' = out.db.prices
    /\ UNCHANGED session

Room(cap) == Len(inventory_movements) < cap

InitializeInventory(cap) ==
    \E sp \in Pairs, q \in Quantities, c \in UnitCosts :
        LET out == initialize_inventory(Db, sp[1], sp[2], q, c)
        IN  Room(cap) /\ Commit(out)

RecordPurchase(cap) ==
    \E sp \in Pairs, q \in Quantities, c \in UnitCosts, rnd \in RoundingModes :
        LET out == record_purchase(Db, sp[1], sp[2], q, c, rnd)
        IN  Room(cap) /\ Commit(out)

RecordSale(cap) ==
    \E sp \in Pairs, q \in Quantities :
        LET out == record_sale(Db, sp[1], sp[2], q, None, "")
        IN  Room(cap) /\ Commit(out)

RecordAdjustment(cap) ==
    \E sp \in Pairs, q \in Deltas :
        LET out == record_adjustment(Db, sp[1], sp[2], q, "")
        IN  Room(cap) /\ Commit(out)

RecordReturn(cap) ==
    \E sp \in Pairs, q \in Quantities :
        LET out == record_return(Db, sp[1], sp[2], q, None, "")
        IN  Room(cap) /\ Commit(out)

TransferInventory(cap) ==
    \E sp \in Pairs, t \in StoreIds, q \in Quantities :
        LET out == transfer_inventory(Db, sp[1], t, sp[2], q)
        IN  Room(cap) /\ Commit(out)

UpdatePrice ==
    \E p \in ProductIds, c \in NewPrices :
        Commit(update_price(Db, p, c))

CreateTransaction ==
    \E h \in Headers, items \in ItemLists :
        /\ Len(transactions) < MaxTransactions
        /\ Commit(create_transaction(Db, h[1], h[2], items, h[3]))

CompleteTransaction ==
    \E t \in TransactionIds :
        Commit(complete_transaction(Db, t))

CancelTransaction ==
    \E t \in TransactionIds :
        Commit(cancel_transaction(Db, t))

RefundTransaction ==
    \E t \in TransactionIds, restore_inventory \in BOOLEAN :
        Commit(refund_transaction(Db, t, restore_inventory))

(* Stocking the store the orders are placed at: purchases of one product at *)
(* one unit cost                                                            *)
Restock(cap) ==
    \E q \in {1, 2} :
        Room(cap) /\ Commit(record_purchase(Db, "S1", "P1", q, 200, "down"))

----------------------------------------------------------------------------
(* Concurrent sessions.  A ledger method reads the balance row with a plain *)
(* SELECT (get_by_store_and_product takes no lock), computes the new values *)
(* from the row it read, and writes them with an UPDATE that commits; the   *)
(* movement is inserted by a further commit.  Each of the three is one      *)
(* step of a session, and the steps of different sessions interleave.       *)

Sessions == {"A", "B"}
MaxConcMovements == 3
ConcMethods == {"record_purchase", "record_sale", "record_adjustment"}

Idle == [pc |-> "idle", method |-> "", store_id |-> "", product_id |-> "",
         quantity |-> 0, unit_cost |-> 0, rnd |-> "", inventory_record |-> None]

InFlight == {w \in Sessions : session[w].pc # "idle"}

(* The checks a method makes on the row it has just read *)
conc_validate(method, inventory_record, quantity, unit_cost) ==
    CASE method = "record_purchase" ->
             quantity > 0 /\ unit_cost > 0 /\ inventory_record # None
      [] method = "record_sale" ->
             /\ quantity > 0
             /\ inventory_record # None
             /\ inventory_record[1].quantity_balance >= quantity
      [] method = "record_adjustment" ->
             /\ quantity # 0
             /\ inventory_record # None
             /\ inventory_record[1].quantity_balance + quantity >= 0

(* The signed change of quantity the method makes *)
conc_change(c) == IF c.method = "record_sale" THEN -c.quantity ELSE c.quantity

(* The row as the session's UPDATE leaves it: the columns the method sets,  *)
(* computed from the row the session read, on the row as it is now          *)
conc_updated_row(c, current) ==
    LET rec == c.inventory_record[1]
        new_quantity == rec.quantity_balance + conc_change(c)
    IN  IF c.method = "record_purchase"
        THEN [current EXCEPT
                 !.quantity_balance = new_quantity,
                 !.unit_cost =
                     IF new_quantity > 0
                     THEN Numeric_10_2(rec.total_cost + c.quantity * c.unit_cost,
                                       new_quantity, c.rnd)
                     ELSE c.unit_cost,
                 !.total_cost = rec.total_cost + c.quantity * c.unit_cost]
        ELSE [current EXCEPT
                 !.quantity_balance = new_quantity,
                 !.total_cost = rec.unit_cost * new_quantity]

conc_movement(c) ==
    Movement(c.store_id, c.product_id, conc_change(c),
             IF c.method = "record_purchase" THEN c.unit_cost
             ELSE c.inventory_record[1].unit_cost,
             CASE c.method = "record_purchase" -> "purchase"
               [] c.method = "record_sale" -> "sale"
               [] c.method = "record_adjustment" -> "adjustment",
             None, "")

(* The session enters a method, reads the balance row and checks it *)
ConcRead ==
    \E w \in Sessions, m \in ConcMethods, sp \in ExistingStores \X ExistingProducts,
       q \in Deltas \cup Quantities, c \in UnitCosts, rnd \in RoundingModes :
        LET inventory_record == get_by_store_and_product(Db, sp[1], sp[2])
        IN  /\ session[w].pc = "idle"
            /\ Len(inventory_movements) + Cardinality(InFlight) < MaxConcMovements
            /\ conc_validate(m, inventory_record, q, c)
            /\ session' = [session EXCEPT ![w] =
                   [pc |-> "read", method |-> m, store_id |-> sp[1],
                    product_id |-> sp[2], quantity |-> q,
                    unit_cost |-> IF m = "record_purchase" THEN c ELSE 0,
                    rnd |-> IF m = "record_purchase" THEN rnd ELSE "",
                    inventory_record |-> inventory_record]]
            /\ UNCHANGED <<store_inventories, inventory_movements, transactions,
                           transaction_items, product_prices>>

(* store_inventory.update: the UPDATE, its commit, and the refresh *)
ConcUpdate ==
    \E w \in Sessions :
        LET c == session[w]
            current == get_by_store_and_product(Db, c.store_id, c.product_id)[1]
            out == store_inventory_update(Db, current, conc_updated_row(c, current))
        IN  /\ c.pc = "read"
            /\ store_inventories' = out.db.inv
            /\ session' = [session EXCEPT ![w] =
                   IF out.result = "ok"
                   THEN [c EXCEPT !.pc = "updated",
                                  !.inventory_record =
                                      Some(conc_updated_row(c, current))]
                   ELSE Idle]
            /\ UNCHANGED <<inventory_movements, transactions, transaction_items,
                           product_prices>>

(* inventory_movement.create: the INSERT and its commit; the method returns *)
ConcMovement ==
    \E w \in Sessions :
        LET c == session[w]
            out == inventory_movement_create(Db, conc_movement(c))
        IN  /\ c.pc = "updated"
            /\ inventory_movements' = out.db.mov
            /\ session' = [session EXCEPT ![w] = Idle]
            /\ UNCHANGED <<store_inventories, transactions, transaction_items,
                           product_prices>>

Init ==
    /\ store_inventories = {}
    /\ inventory_movements = <<>>
    /\ transactions = <<>>
    /\ transaction_items = <<>>
    /\ product_prices = [p \in ExistingProducts |-> None]
    /\ session = <<>>

(* Every service call, on a ledger of fewer than MaxMovements movements *)
Next ==
    \/ InitializeInventory(MaxMovements)
    \/ RecordPurchase(MaxMovements)
    \/ RecordSale(MaxMovements)
    \/ RecordAdjustment(MaxMovements)
    \/ RecordReturn(MaxMovements)
    \/ TransferInventory(MaxMovements)
    \/ UpdatePrice
    \/ CreateTransaction
    \/ CompleteTransaction
    \/ CancelTransaction
    \/ RefundTransaction

Spec == Init /\ [][Next]_vars

(* The ledger calls alone, on a longer ledger *)
NextLedger ==
    \/ InitializeInventory(MaxLedgerMovements)
    \/ RecordPurchase(MaxLedgerMovements)
    \/ RecordSale(MaxLedgerMovements)
    \/ RecordAdjustment(MaxLedgerMovements)
    \/ RecordReturn(MaxLedgerMovements)
    \/ TransferInventory(MaxLedgerMovements)

SpecLedger == Init /\ [][NextLedger]_vars

(* The order calls, with the ledger calls that stock a store *)
NextOrders ==
    \/ Restock(MaxOrderMovements)
    \/ UpdatePrice
    \/ CreateTransaction
    \/ CompleteTransaction
    \/ CancelTransaction
    \/ RefundTransaction

SpecOrders == Init /\ [][NextOrders]_vars

(* Two sessions working on one balance that initialize_inventory created *)
EmptyDb == [inv |-> {}, mov |-> <<>>, txs |-> <<>>, items |-> <<>>,
            prices |-> [p \in ExistingProducts |-> None]]

InitConc ==
    \E q \in {1, 2}, c \in {200, 401} :
        LET out == initialize_inventory(EmptyDb, "S1", "P1", q, c)
        IN  /\ store_inventories = out.db.inv
            /\ inventory_movements = out.db.mov
            /\ transactions = <<>>
            /\ transaction_items = <<>>
            /\ product_prices = [p \in ExistingProducts |-> None]
            /\ session = [w \in Sessions |-> Idle]

NextConc ==
    \/ ConcRead
    \/ ConcUpdate
    \/ ConcMovement

SpecConc == InitConc /\ [][NextConc]_vars

----------------------------------------------------------------------------
(* What the claims speak of *)

(* The sum of quantity_change over the movements of one (store, product) pair *)
RECURSIVE MovementSum(_, _, _)
MovementSum(mov, store_id, product_id) ==
    IF mov = <<>> THEN 0
    ELSE (IF Head(mov).store_id = store_id /\ Head(mov).product_id = product_id
          THEN Head(mov).quantity_change ELSE 0)
         + MovementSum(Tail(mov), store_id, product_id)

(* The sum of price x quantity over the persisted line items of an order *)
RECURSIVE ItemsTotal(_)
ItemsTotal(items) ==
    IF items = <<>> THEN 0
    ELSE Head(items).price * Head(items).quantity + ItemsTotal(Tail(items))

SaleMovements(mov, transaction_id) ==
    SelectSeq(mov, LAMBDA m : m.movement_type = "sale"
                              /\ m.reference_id = Some(transaction_id))

Balance(inv, store_id, product_id) ==
    {r \in inv : r.store_id = store_id /\ r.product_id = product_id}

(* The step is the one the call with outcome out makes *)
StepOf(out) == Commit(out)

----------------------------------------------------------------------------
(* C1: for every (store, product) pair that has a balance record,           *)
(* quantity_balance equals the sum of quantity_change over all movement     *)
(* records of that pair, after any sequence of ledger and order calls.      *)
C1_LedgerReconstruction ==
    \A r \in store_inventories :
        r.quantity_balance
            = MovementSum(inventory_movements, r.store_id, r.product_id)

(* C2: a complete_transaction that fails because record_sale raises on some *)
(* line item leaves every balance, the movement log and the order status    *)
(* exactly as before the attempt.                                           *)
C2_CompletionAllOrNothing ==
    [][\A t \in TransactionIds :
          LET out == complete_transaction(Db, t)
          IN  (StepOf(out) /\ out.result \in {"InsufficientStockError",
                                             "InventoryNotFoundError"})
                  => UNCHANGED <<store_inventories, inventory_movements,
                                 transactions>>]_vars

(* C3: a transfer_inventory that fails leaves the source pair's balance and *)
(* the movement log unchanged: either both sides apply or neither does.     *)
C3_TransferAtomic ==
    [][\A sp \in Pairs, t \in StoreIds, q \in Quantities :
          LET out == transfer_inventory(Db, sp[1], t, sp[2], q)
          IN  (StepOf(out) /\ out.result # "ok")
                  => /\ Balance(store_inventories', sp[1], sp[2])
                            = Balance(store_inventories, sp[1], sp[2])
                     /\ inventory_movements' = inventory_movements]_vars

(* C6: for every persisted order, total_amount equals the exact sum of      *)
(* price x quantity over its line items.                                    *)
C6_OrderTotal ==
    \A t \in 1..Len(transactions) :
        transactions[t].total_amount
            = ItemsTotal(get_by_transaction(Db, t))

(* C7: for every balance, total_cost differs from unit_cost x               *)
(* quantity_balance by less than one cent, the tolerance of the two-decimal *)
(* money type.                                                              *)
C7_CostInvariant ==
    \A r \in store_inventories :
        Abs(r.total_cost - r.unit_cost * r.quantity_balance) < 1

(* C9: a successful transfer_inventory appends exactly two movement         *)
(* records, both of type transfer: -quantity for the source pair and        *)
(* +quantity for the destination pair.                                      *)
C9_TransferTwoMovements ==
    [][\A sp \in Pairs, t \in StoreIds, q \in Quantities :
          LET out == transfer_inventory(Db, sp[1], t, sp[2], q)
              new == SubSeq(inventory_movements', Len(inventory_movements) + 1,
                            Len(inventory_movements'))
              row(m) == <<m.store_id, m.product_id, m.quantity_change,
                          m.movement_type>>
          IN  (StepOf(out) /\ out.result = "ok")
                  => /\ Len(new) = 2
                     /\ {row(new[1]), row(new[2])}
                            = {<<sp[1], sp[2], -q, "transfer">>,
                               <<t, sp[2], q, "transfer">>}]_vars

(* C10: once an order is completed (at the first attempt or at a retry      *)
(* after a failed one), each of its line items has been sold exactly once:  *)
(* there is exactly one sale movement per line item with reference_id = the *)
(* order id.                                                                *)
C10_RetrySellsOnce ==
    \A t \in 1..Len(transactions) :
        transactions[t].status = "completed"
            => Len(SaleMovements(inventory_movements, t))
                   = Len(get_by_transaction(Db, t))

OrderStatus(t) == transactions[t].status

LegalTransitions ==
    {<<"pending", "completed">>, <<"pending", "cancelled">>,
     <<"completed", "refunded">>, <<"completed", "cancelled">>}

(* C4: complete succeeds only from pending, refund only from completed,     *)
(* cancel from pending or completed and never from refunded or cancelled;   *)
(* every illegal attempt raises InvalidTransactionError and leaves the      *)
(* order status unchanged.                                                  *)
C4_StateMachineLegality ==
    /\ [](\A t \in 1..Len(transactions) :
            LET complete == complete_transaction(Db, t)
                cancel == cancel_transaction(Db, t)
                refund(b) == refund_transaction(Db, t, b)
                Rejected(out) == /\ out.result = "InvalidTransactionError"
                                 /\ out.db.txs = transactions
            IN  /\ complete.result = "ok" => OrderStatus(t) = "pending"
                /\ OrderStatus(t) # "pending" => Rejected(complete)
                /\ \A b \in BOOLEAN :
                      /\ refund(b).result = "ok" => OrderStatus(t) = "completed"
                      /\ OrderStatus(t) # "completed" => Rejected(refund(b))
                /\ cancel.result = "ok" <=> OrderStatus(t) \in {"pending", "completed"}
                /\ OrderStatus(t) \in {"refunded", "cancelled"} => Rejected(cancel))
    /\ [][\A t \in 1..Len(transactions) :
            OrderStatus(t)' # OrderStatus(t)
                => <<OrderStatus(t), OrderStatus(t)'>> \in LegalTransitions]_vars

(* An order has been completed and refunded, and a cancel of it is rejected *)
C4_Witness ==
    \E t \in 1..Len(transactions) :
        /\ OrderStatus(t) = "refunded"
        /\ cancel_transaction(Db, t).result = "InvalidTransactionError"
        /\ complete_transaction(Db, t).result = "InvalidTransactionError"

(* C5: no balance is ever negative, and a sale, adjustment or transfer      *)
(* whose decrease exceeds the available balance raises                      *)
(* InsufficientStockError and leaves every balance and the movement log     *)
(* unchanged (the destination of the transfer included).                    *)
C5_NonNegativity ==
    /\ \A r \in store_inventories : r.quantity_balance >= 0
    /\ \A r \in store_inventories :
          LET Refused(out) == /\ out.result = "InsufficientStockError"
                              /\ out.db.inv = store_inventories
                              /\ out.db.mov = inventory_movements
          IN  /\ \A q \in Quantities :
                    (q > 0 /\ q > r.quantity_balance)
                        => /\ Refused(record_sale(Db, r.store_id, r.product_id, q,
                                                  None, ""))
                           /\ \A t \in StoreIds :
                                 Refused(transfer_inventory(Db, r.store_id, t,
                                                            r.product_id, q))
              /\ \A d \in Deltas :
                    (r.quantity_balance + d < 0)
                        => Refused(record_adjustment(Db, r.store_id, r.product_id,
                                                     d, ""))

(* A sale has emptied a balance, so that a further sale, adjustment or      *)
(* transfer out of it exceeds what is available                             *)
C5_Witness ==
    \E r \in store_inventories :
        /\ r.quantity_balance = 0
        /\ \E i \in 1..Len(inventory_movements) :
              /\ inventory_movements[i].movement_type = "sale"
              /\ inventory_movements[i].store_id = r.store_id
              /\ inventory_movements[i].product_id = r.product_id
        /\ record_adjustment(Db, r.store_id, r.product_id, -1, "").result
               = "InsufficientStockError"

(* C8: when the calls of two sessions on the same (store, product) pair     *)
(* have all returned, quantity_balance reflects every one of them: it is    *)
(* the initial quantity plus the quantity changes of all the calls, each of *)
(* which is on record as a movement.                                        *)
C8_NoLostUpdate ==
    InFlight = {}
        => \A r \in store_inventories :
               r.quantity_balance
                   = MovementSum(inventory_movements, r.store_id, r.product_id)

(* The movements that carry reference_id = the order id *)
ReferencingMovements(mov, transaction_id) ==
    SelectSeq(mov, LAMBDA m : m.reference_id = Some(transaction_id))

ReturnMovements(mov, transaction_id) ==
    SelectSeq(mov, LAMBDA m : m.movement_type = "return"
                              /\ m.reference_id = Some(transaction_id))

(* The movements a step has appended *)
Appended == SubSeq(inventory_movements', Len(inventory_movements) + 1,
                   Len(inventory_movements'))

(* The total quantity of a product over the line items *)
RECURSIVE ItemsQuantity(_, _)
ItemsQuantity(items, product_id) ==
    IF items = <<>> THEN 0
    ELSE (IF Head(items).product_id = product_id THEN Head(items).quantity ELSE 0)
         + ItemsQuantity(Tail(items), product_id)

(* C11: once an order is refunded or cancelled, complete, cancel and refund *)
(* are rejected on it and change nothing, no step changes its status or     *)
(* appends a movement referencing it; a completed order can still be        *)
(* refunded or cancelled.                                                   *)
C11_TerminalStates ==
    /\ [](\A t \in 1..Len(transactions) :
            /\ OrderStatus(t) \in {"refunded", "cancelled"}
                 => \A out \in {complete_transaction(Db, t), cancel_transaction(Db, t),
                                refund_transaction(Db, t, TRUE),
                                refund_transaction(Db, t, FALSE)} :
                       out.result = "InvalidTransactionError" /\ out.db = Db
            /\ OrderStatus(t) = "completed"
                 => /\ cancel_transaction(Db, t).db.txs[t].status = "cancelled"
                    /\ \A b \in BOOLEAN :
                          refund_transaction(Db, t, b).db.txs[t].status = "refunded")
    /\ [][\A t \in 1..Len(transactions) :
            OrderStatus(t) \in {"refunded", "cancelled"}
                => /\ OrderStatus(t)' = OrderStatus(t)
                   /\ ReferencingMovements(inventory_movements', t)
                          = ReferencingMovements(inventory_movements, t)]_vars

(* An order refunded with its stock restored, on which a second refund is   *)
(* rejected                                                                 *)
C11_Witness ==
    \E t \in 1..Len(transactions) :
        /\ OrderStatus(t) = "refunded"
        /\ Len(ReturnMovements(inventory_movements, t)) > 0
        /\ refund_transaction(Db, t, TRUE).result = "InvalidTransactionError"

C13_CancelFrame ==
    [][\A t \in 1..Len(transactions) :
          LET out == cancel_transaction(Db, t)
          IN  (StepOf(out) /\ out.result = "ok")
                  => /\ UNCHANGED <<ledger, transaction_items, product_prices>>
                     /\ transactions'
                            = [transactions EXCEPT ![t].status = "cancelled"]]_vars

(* A cancelled order whose sales are still in the log and not given back *)
C13_Witness ==
    \E t \in 1..Len(transactions) :
        /\ OrderStatus(t) = "cancelled"
        /\ Len(SaleMovements(inventory_movements, t)) > 0
        /\ Len(ReturnMovements(inventory_movements, t)) = 0

(* C14: a create_transaction call, successful or failed, leaves every       *)
(* balance record and the movement log unchanged.                           *)
C14_CreateAdvisory ==
    \A h \in Headers, items \in ItemLists :
        LET out == create_transaction(Db, h[1], h[2], items, h[3])
        IN  /\ out.db.inv = store_inventories
            /\ out.db.mov = inventory_movements

(* A pending order on a store whose stock is all still there *)
C14_Witness ==
    \E t \in 1..Len(transactions) :
        /\ OrderStatus(t) = "pending"
        /\ Len(get_by_transaction(Db, t)) > 0
        /\ \E r \in store_inventories :
              /\ r.store_id = transactions[t].store_id
              /\ r.quantity_balance > 0
              /\ r.quantity_balance
                     = MovementSum(inventory_movements, r.store_id, r.product_id)
        /\ \A i \in 1..Len(inventory_movements) :
              inventory_movements[i].movement_type = "purchase"

(* C15: a create_transaction call that fails leaves no order header and no  *)
(* line item behind, and one that succeeds leaves exactly one new pending   *)
(* order with one line item per requested line.                             *)
C15_CreateAtomic ==
    [][\A h \in Headers, items \in ItemLists :
          LET out == create_transaction(Db, h[1], h[2], items, h[3])
              t == Len(transactions) + 1
          IN  StepOf(out)
                  => IF out.result = "ok"
                     THEN /\ Len(transactions') = t
                          /\ SubSeq(transactions', 1, t - 1) = transactions
                          /\ transactions'[t].status = "pending"
                          /\ Len(SelectSeq(transaction_items',
                                   LAMBDA it : it.transaction_id = t)) = Len(items)
                          /\ Len(transaction_items')
                                 = Len(transaction_items) + Len(items)
                     ELSE UNCHANGED <<transactions, transaction_items>>]_vars

(* What record_purchase on the existing balance r must leave, but for the   *)
(* new unit cost: success, the quantities, the total cost, no other balance *)
(* touched, and the one purchase movement at the incoming unit cost         *)
PurchaseApplied(out, r, quantity, unit_cost) ==
    /\ out.result = "ok"
    /\ \E r2 \in out.db.inv :
          /\ r2.store_id = r.store_id /\ r2.product_id = r.product_id
          /\ r2.quantity_balance = r.quantity_balance + quantity
          /\ r2.total_cost = r.total_cost + quantity * unit_cost
          /\ out.db.inv = (store_inventories \ {r}) \cup {r2}
    /\ out.db.mov = Append(inventory_movements,
                           Movement(r.store_id, r.product_id, quantity, unit_cost,
                                    "purchase", None, ""))

C17_Sale ==
    \A r \in store_inventories, q \in Quantities,
       transaction_id \in {None} \cup {Some(t) : t \in TransactionIds} :
        (0 < q /\ q <= r.quantity_balance)
            => LET out == record_sale(Db, r.store_id, r.product_id, q,
                                      transaction_id, "")
                   sold == [r EXCEPT !.quantity_balance = r.quantity_balance - q,
                                     !.total_cost =
                                         r.unit_cost * (r.quantity_balance - q)]
               IN  /\ out.result = "ok"
                   /\ out.db.inv = (store_inventories \ {r}) \cup {sold}
                   /\ out.db.mov
                          = Append(inventory_movements,
                                   Movement(r.store_id, r.product_id, -q,
                                            r.unit_cost, "sale", transaction_id, ""))

(* A balance that a sale has been made from, whose unit cost is a rounded   *)
(* average and which still has stock for a further sale                     *)
C17_Witness ==
    \E r \in store_inventories :
        /\ r.quantity_balance > 0
        /\ r.total_cost = r.unit_cost * r.quantity_balance
        /\ \E i, j \in 1..Len(inventory_movements) :
              /\ inventory_movements[i].movement_type = "sale"
              /\ inventory_movements[i].store_id = r.store_id
              /\ inventory_movements[i].product_id = r.product_id
              /\ inventory_movements[i].unit_cost = r.unit_cost
              /\ inventory_movements[j].movement_type = "purchase"
              /\ inventory_movements[j].unit_cost # r.unit_cost

(* C18: initialize_inventory on a pair that already has a balance record    *)
(* fails with DuplicateBalanceError and leaves the balances and the         *)
(* movement log unchanged.                                                  *)
C18_DuplicateBalance ==
    \A r \in store_inventories, q \in Quantities, c \in UnitCosts :
        (q >= 0 /\ c > 0)
            => LET out == initialize_inventory(Db, r.store_id, r.product_id, q, c)
               IN  /\ out.result = "DuplicateBalanceError"
                   /\ out.db.inv = store_inventories
                   /\ out.db.mov = inventory_movements

----------------------------------------------------------------------------
(* Units of work seen from another session.  complete_transaction and       *)
(* refund_transaction run one record_sale / record_return per line item and *)
(* then update the status; every write inside them is committed by the      *)
(* repository (db.commit() in BaseRepository.create and update), so each    *)
(* write is a step after which another session reads what is committed.     *)

UowMethods == {"complete_transaction", "refund_transaction"}

UowIdle == [pc |-> "idle", method |-> "", transaction_id |-> 0, items |-> <<>>,
            i |-> 0, inventory_record |-> None]

(* The status the method requires, and the one it sets *)
uow_from(method) == IF method = "complete_transaction" THEN "pending" ELSE "completed"
uow_to(method) == IF method = "complete_transaction" THEN "completed" ELSE "refunded"

(* The signed quantity change of the ledger call made for line item i *)
uow_change(w) ==
    IF w.method = "complete_transaction"
    THEN -w.items[w.i].quantity ELSE w.items[w.i].quantity

(* transaction.get, the status check and get_by_transaction *)
UowBegin ==
    \E m \in UowMethods, t \in TransactionIds :
        LET trans == transaction_get(Db, t)
        IN  /\ session.worker.pc = "idle"
            /\ trans # None
            /\ trans[1].status = uow_from(m)
            /\ session' = [session EXCEPT !.worker =
                   [pc |-> "loop", method |-> m, transaction_id |-> t,
                    items |-> get_by_transaction(Db, t), i |-> 1,
                    inventory_record |-> None]]
            /\ UNCHANGED <<store_inventories, inventory_movements, transactions,
                           transaction_items, product_prices>>

(* record_sale / record_return for line item i, up to the commit of the     *)
(* balance update: the read of the balance, the checks, the UPDATE          *)
UowItemUpdate ==
    LET w == session.worker
        store_id == transactions[w.transaction_id].store_id
        inventory_record ==
            get_by_store_and_product(Db, store_id, w.items[w.i].product_id)
        rec == inventory_record[1]
        new_quantity == rec.quantity_balance + uow_change(w)
        out == store_inventory_update(Db, rec,
                   [rec EXCEPT !.quantity_balance = new_quantity,
                               !.total_cost = rec.unit_cost * new_quantity])
        raises == \/ inventory_record = None
                  \/ new_quantity < 0
                  \/ out.result # "ok"
    IN  /\ w.pc = "loop"
        /\ w.i <= Len(w.items)
        /\ IF raises
           THEN /\ session' = [session EXCEPT !.worker = UowIdle]
                /\ UNCHANGED store_inventories
           ELSE /\ session' = [session EXCEPT !.worker.pc = "movement",
                                             !.worker.inventory_record = Some(rec)]
                /\ store_inventories' = out.db.inv
        /\ UNCHANGED <<inventory_movements, transactions, transaction_items,
                       product_prices>>

(* The INSERT of the movement of line item i, and its commit *)
UowItemMovement ==
    LET w == session.worker
        rec == w.inventory_record[1]
        out == inventory_movement_create(Db,
                   Movement(rec.store_id, rec.product_id, uow_change(w),
                            rec.unit_cost,
                            IF w.method = "complete_transaction"
                            THEN "sale" ELSE "return",
                            Some(w.transaction_id),
                            IF w.method = "complete_transaction"
                            THEN "Sale from transaction"
                            ELSE "Refund for transaction"))
    IN  /\ w.pc = "movement"
        /\ inventory_movements' = out.db.mov
        /\ session' = [session EXCEPT !.worker.pc = "loop",
                                      !.worker.i = w.i + 1,
                                      !.worker.inventory_record = None]
        /\ UNCHANGED <<store_inventories, transactions, transaction_items,
                       product_prices>>

(* transaction.update of the status, after the loop; the method returns *)
UowStatus ==
    LET w == session.worker
        out == transaction_update(Db, w.transaction_id, uow_to(w.method))
    IN  /\ w.pc = "loop"
        /\ w.i > Len(w.items)
        /\ transactions' = out.db.txs
        /\ session' = [session EXCEPT !.worker = UowIdle]
        /\ UNCHANGED <<store_inventories, inventory_movements, transaction_items,
                       product_prices>>

(* Another session reads an order and the movements that reference it *)
Observe ==
    \E t \in 1..Len(transactions) :
        /\ session' = [session EXCEPT !.observer =
               Some([transaction_id |-> t,
                     status |-> transactions[t].status,
                     items |-> Len(get_by_transaction(Db, t)),
                     sales |-> Len(SaleMovements(inventory_movements, t)),
                     returns |-> Len(ReturnMovements(inventory_movements, t))])]
        /\ UNCHANGED <<store_inventories, inventory_movements, transactions,
                       transaction_items, product_prices>>

(* A stocked store and a pending order of two lines that the stock covers *)
InitUow ==
    \E q \in {3, 4}, c \in {200, 401},
       items \in {<<Item(Some("P1"), 1, Some(250)), Item(Some("P1"), 1, Some(250))>>,
                  <<Item(Some("P1"), 1, Some(250)), Item(Some("P1"), 2, Some(250))>>} :
        LET stocked == initialize_inventory(EmptyDb, "S1", "P1", q, c)
            out == create_transaction(stocked.db, "S1", "E1", items, None)
        IN  /\ store_inventories = out.db.inv
            /\ inventory_movements = out.db.mov
            /\ transactions = out.db.txs
            /\ transaction_items = out.db.items
            /\ product_prices = out.db.prices
            /\ session = [worker |-> UowIdle, observer |-> None]

NextUow ==
    \/ UowBegin
    \/ UowItemUpdate
    \/ UowItemMovement
    \/ UowStatus
    \/ Observe

SpecUow == InitUow /\ [][NextUow]_vars

(* C19: what another session observes of an order is never a state in which *)
(* only some of the sales of a completion, or only some of the returns of a *)
(* refund, have been applied: a pending order has no sale, a completed or   *)
(* refunded one has all of its sales, a refunded one all of its returns.    *)
C19_UnitOfWorkIsolation ==
    session.observer # None
        => LET seen == session.observer[1]
           IN  /\ seen.sales \in {0, seen.items}
               /\ seen.returns \in {0, seen.items}
               /\ seen.status = "pending" => seen.sales = 0
               /\ seen.status = "completed"
                     => seen.sales = seen.items /\ seen.returns = 0
               /\ seen.status = "refunded"
                     => seen.sales = seen.items /\ seen.returns = seen.items

(* The call raised InvalidQuantityError and changed no balance and no       *)
(* movement                                                                 *)
InvalidQuantityRejected(out) ==
    /\ out.result = "InvalidQuantityError"
    /\ out.db.inv = store_inventories
    /\ out.db.mov = inventory_movements

(* The invalid quantities of purchase, sale, return, transfer and           *)
(* adjustment are rejected, whatever the store and the product              *)
InvalidQuantitiesOfUpdates ==
    \A sp \in Pairs, q \in Quantities, c \in UnitCosts :
        /\ (q <= 0 \/ c <= 0)
              => \A rnd \in RoundingModes :
                    InvalidQuantityRejected(
                        record_purchase(Db, sp[1], sp[2], q, c, rnd))
        /\ q <= 0
              => /\ InvalidQuantityRejected(
                        record_sale(Db, sp[1], sp[2], q, None, ""))
                 /\ InvalidQuantityRejected(
                        record_return(Db, sp[1], sp[2], q, None, ""))
                 /\ \A t \in StoreIds :
                       InvalidQuantityRejected(
                           transfer_inventory(Db, sp[1], t, sp[2], q))
        /\ InvalidQuantityRejected(record_adjustment(Db, sp[1], sp[2], 0, ""))

(* C20: purchase with quantity <= 0 or unit_cost <= 0, sale, return and     *)
(* transfer with quantity <= 0, adjustment with delta 0, and initialize     *)
(* with quantity < 0 or unit_cost <= 0 each raise InvalidQuantityError and  *)
(* leave every balance and the movement log unchanged.                      *)
C20_InvalidQuantities ==
    /\ InvalidQuantitiesOfUpdates
    /\ \A sp \in Pairs, q \in Quantities, c \in UnitCosts :
          (q < 0 \/ c <= 0)
              => InvalidQuantityRejected(
                     initialize_inventory(Db, sp[1], sp[2], q, c))

(* C20, amended: the same, where initialize is called for a store and a     *)
(* product that exist; for a missing store or product it raises             *)
(* StoreNotFoundError or ProductNotFoundError first, and changes nothing.   *)
C20_InvalidQuantitiesKnownPair ==
    /\ InvalidQuantitiesOfUpdates
    /\ \A sp \in Pairs, q \in Quantities, c \in UnitCosts :
          (q < 0 \/ c <= 0)
              => LET out == initialize_inventory(Db, sp[1], sp[2], q, c)
                 IN  IF store_get(Db, sp[1]) /\ product_get(Db, sp[2])
                     THEN InvalidQuantityRejected(out)
                     ELSE /\ out.result \in {"StoreNotFoundError",
                                             "ProductNotFoundError"}
                          /\ out.db = Db

(* A stocked balance with a movement history, on which a sale of zero and a *)
(* transfer of a negative quantity are rejected                             *)
C20_Witness ==
    \E r \in store_inventories :
        /\ r.quantity_balance > 0
        /\ Len(inventory_movements) >= 2
        /\ record_sale(Db, r.store_id, r.product_id, 0, None, "").result
               = "InvalidQuantityError"
        /\ \E t \in ExistingStores :
              transfer_inventory(Db, r.store_id, t, r.product_id, -1).result
                  = "InvalidQuantityError"

(* C21: across every step of every ledger and order call the movement log   *)
(* keeps every earlier movement record unmodified, in place, and every      *)
(* balance record that existed before the step still exists (a balance of   *)
(* quantity zero is kept as a record).                                      *)
C21_AppendOnly ==
    [][/\ Len(inventory_movements') >= Len(inventory_movements)
       /\ SubSeq(inventory_movements', 1, Len(inventory_movements))
              = inventory_movements
       /\ \A r \in store_inventories :
             Balance(store_inventories', r.store_id, r.product_id) # {}]_vars

(* A balance that has been brought down to zero by the movements on record  *)
(* and is still there                                                       *)
C21_Witness ==
    \E r \in store_inventories :
        /\ r.quantity_balance = 0
        /\ \E i, j \in 1..Len(inventory_movements) :
              /\ i < j
              /\ inventory_movements[i].store_id = r.store_id
              /\ inventory_movements[j].store_id = r.store_id
              /\ inventory_movements[i].quantity_change > 0
              /\ inventory_movements[j].quantity_change < 0

(* C22: from every reachable ledger state, for every (store, product) pair  *)
(* that has no balance record - the store or the product may be unknown -   *)
(* and every quantity > 0 and unit cost > 0, record_purchase returns what   *)
(* initialize_inventory returns for the same arguments: the same error or   *)
(* the same new balance and the same appended movement.                     *)
C22_PurchaseInitializes ==
    \A sp \in Pairs, quantity \in Quantities, unit_cost \in UnitCosts,
       rnd \in RoundingModes :
        (/\ get_by_store_and_product(Db, sp[1], sp[2]) = None
         /\ quantity > 0
         /\ unit_cost > 0)
        => LET purchase == record_purchase(Db, sp[1], sp[2], quantity, unit_cost, rnd)
               initialize == initialize_inventory(Db, sp[1], sp[2], quantity, unit_cost)
           IN  /\ purchase.result = initialize.result
               /\ purchase.db.inv = initialize.db.inv
               /\ purchase.db.mov = initialize.db.mov
               /\ sp \in ExistingStores \X ExistingProducts
                    => /\ purchase.result = "ok"
                       /\ Balance(purchase.db.inv, sp[1], sp[2])
                            = {[store_id |-> sp[1], product_id |-> sp[2],
                                quantity_balance |-> quantity,
                                unit_cost |-> unit_cost,
                                total_cost |-> quantity * unit_cost]}
                       /\ purchase.db.mov
                            = Append(inventory_movements,
                                  Movement(sp[1], sp[2], quantity, unit_cost,
                                           "purchase", None, "Initial inventory"))
               /\ sp[1] \notin ExistingStores
                    => purchase.result = "StoreNotFoundError"
               /\ sp[2] \notin ExistingProducts
                    => purchase.result = "ProductNotFoundError"

(* One store holds a balance with history while the other has none, and a   *)
(* purchase on the pair without a balance goes through                      *)
C22_Witness ==
    /\ Len(inventory_movements) >= 2
    /\ \E s \in ExistingStores :
          /\ Balance(store_inventories, s, "P1") = {}
          /\ record_purchase(Db, s, "P1", 2, 401, "down").result = "ok"

(* Sum of quantity_balance over a set of balance records *)
RECURSIVE SumQuantities(_)
SumQuantities(rows) ==
    IF rows = {} THEN 0
    ELSE LET r == CHOOSE x \in rows : TRUE
         IN  r.quantity_balance + SumQuantities(rows \ {r})

get_total_quantity_for_product(db, product_id) ==
    SumQuantities({r \in db.inv : r.product_id = product_id})

(* What the claim says of a successful transfer of quantity from the        *)
(* balance r to the store to_store_id, out being what the call returned     *)
TransferApplied(out, r, to_store_id, quantity) ==
    LET before == Balance(store_inventories, to_store_id, r.product_id)
        source == Balance(out.db.inv, r.store_id, r.product_id)
        destination == Balance(out.db.inv, to_store_id, r.product_id)
    IN  /\ \E x \in source :
              /\ x.quantity_balance = r.quantity_balance - quantity
              /\ x.unit_cost = r.unit_cost
        /\ \E y \in destination :
              IF before = {}
              THEN y.quantity_balance = quantity /\ y.unit_cost = r.unit_cost
              ELSE \E d \in before :
                      /\ y.quantity_balance = d.quantity_balance + quantity
                      /\ y.unit_cost = d.unit_cost
        /\ get_total_quantity_for_product(out.db, r.product_id)
              = get_total_quantity_for_product(Db, r.product_id)

(* C23 as stated: every successful transfer_inventory, whatever the two     *)
(* stores, takes quantity off the source balance and adds it to the         *)
(* destination balance, seeds a missing destination at the source's unit    *)
(* cost and changes no unit cost.                                           *)
C23_Transfer ==
    \A r \in store_inventories, to_store_id \in StoreIds, quantity \in Quantities :
        LET out == transfer_inventory(Db, r.store_id, to_store_id, r.product_id,
                                      quantity)
        IN  out.result = "ok" => TransferApplied(out, r, to_store_id, quantity)

(* C23: a successful transfer_inventory between two different stores takes  *)
(* quantity off the source balance and adds it to the destination balance   *)
(* (the product's total over all stores is unchanged), seeds a missing      *)
(* destination with quantity at the source's unit cost, and changes neither *)
(* the source's nor an existing destination's unit cost; a successful       *)
(* transfer from a store to itself leaves its quantity and its unit cost as *)
(* they were.                                                               *)
C23_TransferBetweenStores ==
    \A r \in store_inventories, to_store_id \in StoreIds, quantity \in Quantities :
        LET out == transfer_inventory(Db, r.store_id, to_store_id, r.product_id,
                                      quantity)
        IN  out.result = "ok"
            => IF to_store_id # r.store_id
               THEN /\ TransferApplied(out, r, to_store_id, quantity)
                    /\ \A x \in out.db.inv :
                          x.store_id \notin {r.store_id, to_store_id}
                              => x \in store_inventories
               ELSE /\ \E x \in Balance(out.db.inv, r.store_id, r.product_id) :
                          /\ x.quantity_balance = r.quantity_balance
                          /\ x.unit_cost = r.unit_cost
                    /\ out.db.inv \ Balance(out.db.inv, r.store_id, r.product_id)
                          = store_inventories \ {r}

(* A transfer has been made into a store whose balance keeps a unit cost    *)
(* other than the source's                                                  *)
C23_Witness ==
    /\ \E i \in 1..Len(inventory_movements) :
          inventory_movements[i].movement_type = "transfer"
    /\ \E x, y \in store_inventories :
          /\ x.store_id # y.store_id
          /\ x.unit_cost # y.unit_cost

(* quantity_balance of a pair, 0 for a pair without a balance *)
QuantityOf(inv, store_id, product_id) ==
    SumQuantities(Balance(inv, store_id, product_id))

(* out, returned by a call on (store_id, product_id), appended exactly one  *)
(* movement, for that pair, whose quantity_change is the change of the      *)
(* pair's quantity_balance; a call that raised appended none                *)
OneMovement(out, store_id, product_id) ==
    IF out.result = "ok"
    THEN /\ Len(out.db.mov) = Len(inventory_movements) + 1
         /\ SubSeq(out.db.mov, 1, Len(inventory_movements)) = inventory_movements
         /\ LET m == out.db.mov[Len(out.db.mov)]
            IN  /\ m.store_id = store_id
                /\ m.product_id = product_id
                /\ m.quantity_change
                     = QuantityOf(out.db.inv, store_id, product_id)
                         - QuantityOf(store_inventories, store_id, product_id)
    ELSE out.db.mov = inventory_movements

(* C24: from every reachable ledger state, a purchase on an existing        *)
(* balance, a sale, an adjustment and a return each append exactly one      *)
(* movement, for the pair of the call and with quantity_change equal to the *)
(* change made to quantity_balance, when they succeed; a successful         *)
(* initialize appends one 'purchase' movement with the note "Initial        *)
(* inventory" when quantity > 0 and none when quantity = 0; a call that     *)
(* fails appends none.                                                      *)
C24_OneMovementPerOperation ==
    /\ \A sp \in Pairs, quantity \in Quantities :
          /\ \A unit_cost \in UnitCosts :
                /\ \A rnd \in RoundingModes :
                      OneMovement(record_purchase(Db, sp[1], sp[2], quantity,
                                                  unit_cost, rnd), sp[1], sp[2])
                /\ LET out == initialize_inventory(Db, sp[1], sp[2], quantity,
                                                   unit_cost)
                   IN  IF out.result = "ok" /\ quantity > 0
                       THEN /\ OneMovement(out, sp[1], sp[2])
                            /\ out.db.mov[Len(out.db.mov)].movement_type = "purchase"
                            /\ out.db.mov[Len(out.db.mov)].notes = "Initial inventory"
                       ELSE out.db.mov = inventory_movements
          /\ \A t \in {None, Some(1)} :
                /\ OneMovement(record_sale(Db, sp[1], sp[2], quantity, t, ""),
                               sp[1], sp[2])
                /\ OneMovement(record_return(Db, sp[1], sp[2], quantity, t, ""),
                               sp[1], sp[2])
    /\ \A sp \in Pairs, quantity_change \in Deltas :
          OneMovement(record_adjustment(Db, sp[1], sp[2], quantity_change, ""),
                      sp[1], sp[2])

(* A balance initialized with quantity 0 has no movement, next to one whose *)
(* initialization was logged and that a later movement has changed          *)
C24_Witness ==
    /\ \E r \in store_inventories :
          /\ r.quantity_balance = 0
          /\ \A i \in 1..Len(inventory_movements) :
                inventory_movements[i].store_id # r.store_id
    /\ \E i, j \in 1..Len(inventory_movements) :
          /\ inventory_movements[i].notes = "Initial inventory"
          /\ inventory_movements[j].movement_type \in {"sale", "adjustment", "return"}

(* After the successful call that returned out, each balance of rows is     *)
(* still there with the unit_cost it had and total_cost = unit_cost x the   *)
(* new quantity                                                             *)
CostKept(out, rows) ==
    out.result = "ok"
    => \A r \in rows :
          \E x \in Balance(out.db.inv, r.store_id, r.product_id) :
              /\ x.unit_cost = r.unit_cost
              /\ x.total_cost = x.unit_cost * x.quantity_balance

(* C25: from every reachable ledger state, a successful sale, adjustment    *)
(* or return on a balance, and a successful transfer out of or into a       *)
(* balance, leaves that balance's unit_cost exactly as it was and sets its  *)
(* total_cost to unit_cost x the new quantity.                              *)
C25_UnitCostFrame ==
    \A r \in store_inventories :
        /\ \A quantity \in Quantities, t \in {None, Some(1)} :
              /\ CostKept(record_sale(Db, r.store_id, r.product_id, quantity, t, ""),
                          {r})
              /\ CostKept(record_return(Db, r.store_id, r.product_id, quantity, t, ""),
                          {r})
        /\ \A quantity_change \in Deltas :
              CostKept(record_adjustment(Db, r.store_id, r.product_id,
                                         quantity_change, ""), {r})
        /\ \A to_store_id \in StoreIds, quantity \in Quantities :
              CostKept(transfer_inventory(Db, r.store_id, to_store_id,
                                          r.product_id, quantity),
                       {r} \cup Balance(store_inventories, to_store_id, r.product_id))

(* A balance whose unit cost is a blended average, whose total is           *)
(* unit_cost x quantity, and on which a sale, adjustment, return or         *)
(* transfer has been recorded at that unit cost                             *)
C25_Witness ==
    \E r \in store_inventories :
        /\ r.unit_cost \notin UnitCosts
        /\ r.total_cost = r.unit_cost * r.quantity_balance
        /\ \E i \in 1..Len(inventory_movements) :
              /\ inventory_movements[i].store_id = r.store_id
              /\ inventory_movements[i].movement_type # "purchase"
              /\ inventory_movements[i].unit_cost = r.unit_cost

(* The call that returned out raised InventoryNotFoundError and wrote nothing *)
InventoryNotFound(out) ==
    /\ out.result = "InventoryNotFoundError"
    /\ out.db = Db

(* C26: from every reachable ledger state, for every (store, product) pair  *)
(* without a balance: a sale or return of a quantity > 0 and an adjustment  *)
(* by a delta # 0 raise InventoryNotFoundError, create no balance and       *)
(* append no movement; so does a transfer of a quantity > 0 out of that     *)
(* pair, to any store, and the destination's balance is unchanged.          *)
C26_InventoryNotFound ==
    \A sp \in Pairs :
        get_by_store_and_product(Db, sp[1], sp[2]) = None
        => /\ \A quantity \in {q \in Quantities : q > 0} :
                 /\ \A t \in {None, Some(1)} :
                       /\ InventoryNotFound(
                              record_sale(Db, sp[1], sp[2], quantity, t, ""))
                       /\ InventoryNotFound(
                              record_return(Db, sp[1], sp[2], quantity, t, ""))
                 /\ \A to_store_id \in StoreIds :
                       InventoryNotFound(
                           transfer_inventory(Db, sp[1], to_store_id, sp[2], quantity))
           /\ \A quantity_change \in {d \in Deltas : d # 0} :
                 InventoryNotFound(
                     record_adjustment(Db, sp[1], sp[2], quantity_change, ""))

(* One store has stock and a logged history, the other has no balance, and  *)
(* a transfer out of the store without a balance is refused                 *)
C26_Witness ==
    \E s, t \in ExistingStores :
        /\ Balance(store_inventories, s, "P1") = {}
        /\ \E r \in Balance(store_inventories, t, "P1") : r.quantity_balance > 0
        /\ Len(inventory_movements) >= 1
        /\ transfer_inventory(Db, s, t, "P1", 1).result = "InventoryNotFoundError"

(* A requested line is ill-formed: quantity <= 0, or no price given and no  *)
(* current catalog price for the product                                    *)
LineInvalid(item) ==
    \/ item.quantity <= 0
    \/ item.price = None /\ get_current_price(Db, item.product_id[1]) = None

(* A requested line is out of stock at the store: no balance, or less than  *)
(* the requested quantity                                                   *)
LineOutOfStock(store_id, item) ==
    \/ Balance(store_inventories, store_id, item.product_id[1]) = {}
    \/ \E r \in Balance(store_inventories, store_id, item.product_id[1]) :
          r.quantity_balance < item.quantity

(* Requests of an existing store, employee and customer whose lines all     *)
(* name an existing product                                                 *)
KnownHeaders ==
    {h \in Headers : /\ store_get(Db, h[1])
                     /\ employee_get(Db, h[2])
                     /\ h[3] # None => customer_get(Db, h[3][1])}

KnownProductLists ==
    {items \in ItemLists :
        \A i \in 1..Len(items) :
            /\ items[i].product_id # None
            /\ product_get(Db, items[i].product_id[1])}

(* C27: from every reachable order state, create_transaction for an         *)
(* existing store, employee and customer and lines of existing products     *)
(* fails with InvalidTransactionError when the item list is empty; when     *)
(* some line is ill-formed or out of stock it fails on the first such line, *)
(* with InvalidTransactionError if that line's quantity is <= 0 or it has   *)
(* no price and the catalog has no current price, and otherwise with        *)
(* InsufficientStockError (balance absent or less than the quantity); with  *)
(* no such line it raises neither error.                                    *)
C27_CreateErrors ==
    \A h \in KnownHeaders, items \in KnownProductLists :
        LET out == create_transaction(Db, h[1], h[2], items, h[3])
            bad == {i \in 1..Len(items) :
                       LineInvalid(items[i]) \/ LineOutOfStock(h[1], items[i])}
        IN  IF items = <<>> THEN out.result = "InvalidTransactionError"
            ELSE IF bad = {}
                 THEN out.result \notin {"InvalidTransactionError",
                                         "InsufficientStockError"}
            ELSE LET first == CHOOSE i \in bad : \A k \in bad : i <= k
                 IN  out.result = IF LineInvalid(items[first])
                                  THEN "InvalidTransactionError"
                                  ELSE "InsufficientStockError"

(* Store S1 holds one unit, store S2 has no balance and the catalog has no  *)
(* price: a line of two units and a line at S2 are out of stock, a line     *)
(* without a price is invalid, and a list with an out-of-stock line before  *)
(* an invalid one is refused as out of stock                                *)
C27_Witness ==
    /\ \E r \in Balance(store_inventories, "S1", "P1") : r.quantity_balance = 1
    /\ get_current_price(Db, "P1") = None
    /\ create_transaction(Db, "S1", "E1", <<Item(Some("P1"), 2, Some(250))>>,
                          None).result = "InsufficientStockError"
    /\ create_transaction(Db, "S2", "E1", <<Item(Some("P1"), 1, Some(250))>>,
                          None).result = "InsufficientStockError"
    /\ create_transaction(Db, "S1", "E1", <<Item(Some("P1"), 1, None)>>,
                          None).result = "InvalidTransactionError"
    /\ create_transaction(Db, "S1", "E1",
                          <<Item(Some("P1"), 2, Some(250)),
                            Item(Some("P1"), 0, Some(250))>>,
                          None).result = "InsufficientStockError"

(* Some requested line carries a caller-supplied price <= 0 *)
NonPositivePrice(items) ==
    \E i \in 1..Len(items) : items[i].price # None /\ items[i].price[1] <= 0

(* C28: every persisted order line item has quantity > 0 and price > 0, and *)
(* from every reachable order state a create_transaction call with a        *)
(* caller-supplied price <= 0 on some line is rejected with no order header *)
(* and no line item persisted.                                              *)
C28_PositivePrices ==
    /\ \A i \in 1..Len(transaction_items) :
          /\ transaction_items[i].quantity > 0
          /\ transaction_items[i].price > 0
    /\ \A h \in Headers, items \in ItemLists :
          NonPositivePrice(items)
          => LET out == create_transaction(Db, h[1], h[2], items, h[3])
             IN  /\ out.result # "ok"
                 /\ out.db.txs = transactions
                 /\ out.db.items = transaction_items

(* The total order of the balance rows: by store id, then by product id *)
store_id_rank(store_id) ==
    CASE store_id = "S1" -> 1 [] store_id = "S2" -> 2 [] OTHER -> 3

product_id_rank(product_id) ==
    CASE product_id = "P1" -> 1 [] OTHER -> 2

RowBefore(m, n) ==
    \/ store_id_rank(m.store_id) < store_id_rank(n.store_id)
    \/ /\ m.store_id = n.store_id
       /\ product_id_rank(m.product_id) < product_id_rank(n.product_id)

(* C29: a successful transfer_inventory between two stores updates its two  *)
(* balance rows in the fixed total order (store id, then product id). Each  *)
(* balance update is followed at once by the movement it logs, so the first *)
(* two movements the step appends name the rows in the order of their       *)
(* update.                                                                  *)
C29_FixedRowOrder ==
    [][\A sp \in Pairs, to_store_id \in StoreIds, quantity \in Quantities :
          LET out == transfer_inventory(Db, sp[1], to_store_id, sp[2], quantity)
          IN  (StepOf(out) /\ out.result = "ok" /\ to_store_id # sp[1])
                  => RowBefore(Appended[1], Appended[2])]_vars

----------------------------------------------------------------------------
(* Sales reporting over several orders at two stores *)

MaxSalesTransactions == 2
MaxSalesMovements == 2

(* get_total_sales that goes on counting the orders that were refunded *)
get_total_sales_gross(db, store_id) ==
    LET hit == SelectSeq(db.txs,
                   LAMBDA tx : /\ tx.status \in {"completed", "refunded"}
                               /\ store_id # None => tx.store_id = store_id[1])
    IN  SumSeq([i \in 1..Len(hit) |-> hit[i].total_amount])

(* TransactionRepository.get_total_sales without a date range: the sum of   *)
(* total_amount over the rows with status 'completed' and, when a store is  *)
(* given, with that store_id; 0 when there is no such row                   *)
get_total_sales(db, store_id) ==
    LET hit == SelectSeq(db.txs,
                   LAMBDA tx : /\ tx.status = "completed"
                               /\ store_id # None => tx.store_id = store_id[1])
    IN  SumSeq([i \in 1..Len(hit) |-> hit[i].total_amount])

StockStores(cap) ==
    \E s \in ExistingStores :
        Room(cap) /\ Commit(record_purchase(Db, s, "P1", 2, 200, "down"))

CreateSalesTransaction(cap) ==
    \E s \in ExistingStores, items \in ItemLists :
        /\ Len(transactions) < cap
        /\ Commit(create_transaction(Db, s, "E1", items, None))

NextSales ==
    \/ StockStores(MaxSalesMovements)
    \/ CreateSalesTransaction(MaxSalesTransactions)
    \/ CompleteTransaction
    \/ CancelTransaction
    \/ RefundTransaction

SpecSales == Init /\ [][NextSales]_vars

(* The orders that count as sales: completed, at the store when one is given *)
CompletedOrders(store_id) ==
    {t \in 1..Len(transactions) :
        /\ transactions[t].status = "completed"
        /\ store_id # None => transactions[t].store_id = store_id[1]}

RECURSIVE SumTotals(_)
SumTotals(ts) ==
    IF ts = {} THEN 0
    ELSE LET t == CHOOSE x \in ts : TRUE
         IN  transactions[t].total_amount + SumTotals(ts \ {t})

(* C30: at every point, for no store filter and for every store filter,     *)
(* get_total_sales equals the sum of total_amount over the orders whose     *)
(* current status is completed (and that are of the store): pending,        *)
(* cancelled and refunded orders do not count; and the step that takes an   *)
(* order out of completed takes its total_amount off the unfiltered total.  *)
C30_TotalSales ==
    /\ [](\A store_id \in {None} \cup {Some(s) : s \in StoreIds} :
             get_total_sales(Db, store_id) = SumTotals(CompletedOrders(store_id)))
    /\ [][\A t \in 1..Len(transactions) :
             (transactions[t].status = "completed"
                 /\ transactions'[t].status # "completed")
             => get_total_sales([Db EXCEPT !.txs = transactions'], None)
                    = get_total_sales(Db, None) - transactions[t].total_amount]_vars

(* A completed order at one store next to a refunded order at the other,    *)
(* both of a positive total                                                 *)
C30_Witness ==
    /\ Len(transactions) = 2
    /\ transactions[1].status = "completed"
    /\ transactions[2].status = "refunded"
    /\ transactions[1].store_id # transactions[2].store_id
    /\ transactions[1].total_amount > 0
    /\ transactions[2].total_amount > 0

(* C31: in every reachable state every movement record has a                *)
(* quantity_change other than 0, a unit_cost > 0 and a movement_type among  *)
(* purchase, sale, adjustment, return and transfer, and every balance       *)
(* record has quantity_balance >= 0, unit_cost > 0 and total_cost >= 0.     *)
C31_DomainInvariants ==
    /\ \A i \in 1..Len(inventory_movements) :
          /\ inventory_movements[i].quantity_change # 0
          /\ inventory_movements[i].unit_cost > 0
          /\ inventory_movements[i].movement_type
                \in {"purchase", "sale", "adjustment", "return", "transfer"}
    /\ \A r \in store_inventories :
          /\ r.quantity_balance >= 0
          /\ r.unit_cost > 0
          /\ r.total_cost >= 0

(* A balance adjusted down to nothing: quantity 0 and total cost 0 at a     *)
(* positive unit cost, with the negative adjustment on record               *)
C31_Witness ==
    \E r \in store_inventories :
        /\ r.quantity_balance = 0 /\ r.total_cost = 0 /\ r.unit_cost > 0
        /\ \E i \in 1..Len(inventory_movements) :
              /\ inventory_movements[i].store_id = r.store_id
              /\ inventory_movements[i].movement_type = "adjustment"
              /\ inventory_movements[i].quantity_change < 0

----------------------------------------------------------------------------
(* Movement history. A movement's created_at is its position in the log;    *)
(* a query returns the positions of its rows, latest first (skip = 0, a     *)
(* limit beyond the length of the log).                                     *)

MovementTypes == {"purchase", "sale", "adjustment", "return", "transfer"}
Dates == 1..MaxLedgerMovements

RECURSIVE LatestFirst(_)
LatestFirst(positions) ==
    IF positions = {} THEN <<>>
    ELSE LET last == CHOOSE i \in positions : \A k \in positions : k <= i
         IN  <<last>> \o LatestFirst(positions \ {last})

get_by_date_range(db, start_date, end_date, store_id) ==
    LatestFirst({i \in 1..Len(db.mov) :
                    /\ i >= start_date
                    /\ i <= end_date
                    /\ store_id # None => db.mov[i].store_id = store_id[1]})

movement_get_by_store_and_product(db, store_id, product_id) ==
    LatestFirst({i \in 1..Len(db.mov) :
                    /\ db.mov[i].store_id = store_id
                    /\ db.mov[i].product_id = product_id})

movement_get_by_store(db, store_id) ==
    LatestFirst({i \in 1..Len(db.mov) : db.mov[i].store_id = store_id})

movement_get_by_product(db, product_id) ==
    LatestFirst({i \in 1..Len(db.mov) : db.mov[i].product_id = product_id})

movement_get_by_type(db, movement_type) ==
    LatestFirst({i \in 1..Len(db.mov) : db.mov[i].movement_type = movement_type})

movement_get_multi(db) == LatestFirst(1..Len(db.mov))

get_movement_history(db, store_id, product_id, movement_type, start_date, end_date) ==
    IF start_date # None /\ end_date # None
    THEN get_by_date_range(db, start_date[1], end_date[1], store_id)
    ELSE IF store_id # None /\ product_id # None
    THEN movement_get_by_store_and_product(db, store_id[1], product_id[1])
    ELSE IF store_id # None THEN movement_get_by_store(db, store_id[1])
    ELSE IF product_id # None THEN movement_get_by_product(db, product_id[1])
    ELSE IF movement_type # None THEN movement_get_by_type(db, movement_type[1])
    ELSE movement_get_multi(db)

Optional(S) == {None} \cup {Some(x) : x \in S}

(* C32: from every reachable ledger state and for every combination of      *)
(* supplied filters, every movement get_movement_history returns is of the  *)
(* store, of the product and of the movement type asked for and was created *)
(* within the date range asked for.                                         *)
C32_HistoryFilters ==
    \A store_id \in Optional(StoreIds), product_id \in Optional(ProductIds),
       movement_type \in Optional(MovementTypes),
       start_date \in Optional(Dates), end_date \in Optional(Dates) :
        LET history == get_movement_history(Db, store_id, product_id,
                           movement_type, start_date, end_date)
        IN  \A k \in 1..Len(history) :
                LET m == inventory_movements[history[k]]
                IN  /\ store_id # None => m.store_id = store_id[1]
                    /\ product_id # None => m.product_id = product_id[1]
                    /\ movement_type # None => m.movement_type = movement_type[1]
                    /\ start_date # None => history[k] >= start_date[1]
                    /\ end_date # None => history[k] <= end_date[1]

(* C33: from every reachable order state, for every request that            *)
(* create_transaction accepts, complete_transaction called on the new order *)
(* directly afterwards succeeds and leaves the order completed.             *)
C33_AcceptedOrderCompletes ==
    \A h \in Headers, items \in ItemLists :
        LET created == create_transaction(Db, h[1], h[2], items, h[3])
            t == Len(created.db.txs)
            completed == complete_transaction(created.db, t)
        IN  created.result = "ok"
            => /\ completed.result = "ok"
               /\ completed.db.txs[t].status = "completed"

(* C34: from every reachable order state, for every order that              *)
(* complete_transaction completes, refund_transaction with                  *)
(* restore_inventory = TRUE called directly afterwards succeeds and leaves  *)
(* every (store, product) pair with the quantity_balance it had before the  *)
(* completion.                                                              *)
C34_CompleteRefundRoundTrip ==
    \A t \in TransactionIds :
        LET completed == complete_transaction(Db, t)
            refunded == refund_transaction(completed.db, t, TRUE)
        IN  completed.result = "ok"
            => /\ refunded.result = "ok"
               /\ refunded.db.txs[t].status = "refunded"
               /\ \A sp \in Pairs :
                     QuantityOf(refunded.db.inv, sp[1], sp[2])
                         = QuantityOf(store_inventories, sp[1], sp[2])

(* A pending order of two lines that can be completed, the completion       *)
(* taking stock away                                                        *)
C34_Witness ==
    \E t \in 1..Len(transactions) :
        /\ transactions[t].status = "pending"
        /\ Len(get_by_transaction(Db, t)) = 2
        /\ LET completed == complete_transaction(Db, t)
           IN  /\ completed.result = "ok"
               /\ QuantityOf(completed.db.inv, "S1", "P1")
                     < QuantityOf(store_inventories, "S1", "P1")
               /\ refund_transaction(completed.db, t, TRUE).result = "ok"

(* C35: from every reachable ledger state, for every balance and every      *)
(* quantity that can be sold from it, record_sale followed directly by      *)
(* record_return of the same quantity leaves the balance record exactly as  *)
(* it was: quantity_balance, unit_cost and total_cost.                      *)
C35_SaleReturnRoundTrip ==
    \A r \in store_inventories, quantity \in Quantities :
        LET sold == record_sale(Db, r.store_id, r.product_id, quantity, None, "")
            returned == record_return(sold.db, r.store_id, r.product_id, quantity,
                                      None, "")
        IN  sold.result = "ok"
            => /\ returned.result = "ok"
               /\ Balance(returned.db.inv, r.store_id, r.product_id) = {r}

(* Units of a product moved by the movements of one type that reference an  *)
(* order                                                                    *)
ReferencedQuantity(mov, movement_type, transaction_id, product_id) ==
    LET hit == SelectSeq(mov, LAMBDA m : /\ m.movement_type = movement_type
                                         /\ m.reference_id = Some(transaction_id)
                                         /\ m.product_id = product_id)
    IN  SumSeq([i \in 1..Len(hit) |-> Abs(hit[i].quantity_change)])

----------------------------------------------------------------------------
(* Two sessions creating balances: initialize_inventory entered directly,   *)
(* from record_purchase on a pair without a balance, or from                *)
(* transfer_inventory to a destination without a balance. Each read and     *)
(* each committed write of a session is one step.                           *)

MaxCreateMovements == 3
CreateMethods == {"initialize_inventory", "record_purchase", "transfer_inventory"}

(* The caller of initialize_inventory up to that call: record_purchase      *)
(* reads the pair and finds no balance; transfer_inventory adjusts the      *)
(* source S1, reads the destination and finds no balance                    *)
CreateEnter ==
    \E w \in Sessions, m \in CreateMethods, s \in ExistingStores,
       q \in {0, 1, 2}, c \in {200, 401} :
        LET source == record_adjustment(Db, "S1", "P1", -q, "Transfer to store")
            from_inventory == get_by_store_and_product(source.db, "S1", "P1")
            entered(unit_cost) ==
                [Idle EXCEPT !.pc = "entered", !.method = m, !.store_id = s,
                             !.product_id = "P1", !.quantity = q,
                             !.unit_cost = unit_cost]
        IN  /\ session[w].pc = "idle"
            /\ Len(inventory_movements) + Cardinality(InFlight) < MaxCreateMovements
            /\ CASE m = "initialize_inventory" ->
                      /\ session' = [session EXCEPT ![w] = entered(c)]
                      /\ UNCHANGED <<store_inventories, inventory_movements>>
                 [] m = "record_purchase" ->
                      /\ q > 0
                      /\ get_by_store_and_product(Db, s, "P1") = None
                      /\ session' = [session EXCEPT ![w] = entered(c)]
                      /\ UNCHANGED <<store_inventories, inventory_movements>>
                 [] m = "transfer_inventory" ->
                      /\ q > 0
                      /\ s # "S1"
                      /\ source.result = "ok"
                      /\ get_by_store_and_product(source.db, s, "P1") = None
                      /\ store_inventories' = source.db.inv
                      /\ inventory_movements' = source.db.mov
                      /\ session' = [session EXCEPT ![w] =
                                        entered(from_inventory[1].unit_cost)]
            /\ UNCHANGED <<transactions, transaction_items, product_prices>>

(* initialize_inventory up to its check for an existing balance *)
CreateCheck ==
    \E w \in Sessions :
        LET c == session[w]
        IN  /\ c.pc = "entered"
            /\ session' = [session EXCEPT ![w] =
                   IF get_by_store_and_product(Db, c.store_id, c.product_id) # None
                   THEN Idle
                   ELSE [c EXCEPT !.pc = "checked"]]
            /\ UNCHANGED <<store_inventories, inventory_movements, transactions,
                           transaction_items, product_prices>>

(* store_inventory.create: the INSERT and its commit *)
CreateInsert ==
    \E w \in Sessions :
        LET c == session[w]
            out == store_inventory_create(Db,
                       [store_id |-> c.store_id, product_id |-> c.product_id,
                        quantity_balance |-> c.quantity, unit_cost |-> c.unit_cost,
                        total_cost |-> c.quantity * c.unit_cost])
        IN  /\ c.pc = "checked"
            /\ store_inventories' = out.db.inv
            /\ session' = [session EXCEPT ![w] =
                   IF out.result = "ok" THEN [c EXCEPT !.pc = "created"] ELSE Idle]
            /\ UNCHANGED <<inventory_movements, transactions, transaction_items,
                           product_prices>>

(* The movements written after the INSERT: the initial purchase when the    *)
(* quantity is positive and, in transfer_inventory, the two transfer        *)
(* movements; the method returns                                            *)
CreateMovements ==
    \E w \in Sessions :
        LET c == session[w]
            initial ==
                IF c.quantity > 0
                THEN <<Movement(c.store_id, c.product_id, c.quantity, c.unit_cost,
                                "purchase", None, "Initial inventory")>>
                ELSE <<>>
            transfer ==
                IF c.method = "transfer_inventory"
                THEN <<Movement("S1", c.product_id, -c.quantity, c.unit_cost,
                                "transfer", None, "Transfer to store"),
                       Movement(c.store_id, c.product_id, c.quantity, c.unit_cost,
                                "transfer", None, "Transfer from store")>>
                ELSE <<>>
        IN  /\ c.pc = "created"
            /\ inventory_movements' = inventory_movements \o initial \o transfer
            /\ session' = [session EXCEPT ![w] = Idle]
            /\ UNCHANGED <<store_inventories, transactions, transaction_items,
                           product_prices>>

NextCreate ==
    \/ CreateEnter
    \/ CreateCheck
    \/ CreateInsert
    \/ CreateMovements

SpecCreate == InitConc /\ [][NextCreate]_vars

(* C37: in every reachable state, with two sessions running initialize,     *)
(* purchase on a missing pair and transfer to a missing destination one     *)
(* after the other or interleaved, there is at most one balance record per  *)
(* (store, product) pair.                                                   *)
C37_BalanceUnique ==
    \A sp \in Pairs :
        Cardinality(Balance(store_inventories, sp[1], sp[2])) <= 1

(* One session has created the balance of S2 while the other, which found   *)
(* no balance when it checked, is about to insert one for S2                *)
C37_Witness ==
    /\ Balance(store_inventories, "S2", "P1") # {}
    /\ \E w \in Sessions :
          /\ session[w].pc = "checked"
          /\ session[w].store_id = "S2"
====
